---- MODULE Spec2Model ----
(***************************************************************************)
(* Model of the foul-analysis pipeline of IsThisAFoul: the analyze route   *)
(* (batch describe call, multi-frame response parser, single-frame          *)
(* fallback, summary aggregator) and the foul route (knowledge-base query,  *)
(* final determination).                                                    *)
(*                                                                          *)
(* Text is modelled at token level: a string is a sequence of tokens, a     *)
(* token is a keyword ("FRAME", "ACTION", ...), a punctuation mark (":",    *)
(* "*", "-", ",", "[", "]", "{", "}"), a space " ", a digit or a word.      *)
(* A text is a sequence of lines (what split("\n") returns).                *)
(***************************************************************************)
EXTENDS Integers, Sequences, FiniteSets, TLC

VARIABLES
    \* the analyze request and the files it names
    framesField,       \* what the body's "frames" is: "array", "missing", "notArray"
    frames,            \* the frames array: records [path, timestamp]
    diskFrames,        \* the frame paths readFile can read
    \* the analyze handler (POST /api/analyze)
    pc,                \* position of the handler
    describeCalls,     \* the generateContent calls issued, in order: 0 for the
                       \* batch call, k for the single-frame call of frame k
    batchOutcome,      \* "none", "threw" or "returned"
    text,              \* analysisText: the batch response text
    i,                 \* frames the fallback loop has processed
    frameResults,      \* how each processed frame's iteration went: "unreadable",
                       \* "threw", or "returned" with the response text
    fallbackMode,      \* the catch of the batch attempt (the fallback) was entered
    frameAnalyses,     \* the FrameAnalysis list the handler holds
    summary,           \* generateAnalysisSummary(frameAnalyses)
    sequenceAnalysis,  \* extractSequenceAnalysis(analysisText)
    analysisFile,      \* uploads/analyses/analysis_<id>.json
    response,          \* the analyze handler's response
    \* the foul handler (POST /api/foul)
    fpc,               \* position of the handler
    analysisId,        \* the body's "analysisId": "present" or "missing"
    kbOutcome,         \* how bedrockClient.send ended
    relevantRules,     \* what queryKnowledgeBase returned
    genCalls,          \* generateContent calls of makeFinalDetermination
    genOutcome,        \* "none", "threw" or "returned"
    genText,           \* the generation model's response text
    determination,     \* what makeFinalDetermination returned
    foulFile,          \* uploads/analyses/foul_<id>.json
    foulResponse,      \* the foul handler's response
    \* two clients on the shared uploads directory
    clientPc,          \* position of each client's request
    clientId,          \* the identifier (timestamp) each client's request carries
    frameStore,        \* uploads/frames: per identifier, whose frames are there
    analysisStore,     \* uploads/analyses/analysis_<id>.json: whose analyses
    foulStore,         \* uploads/analyses/foul_<id>.json: from whose analyses
    framesRead,        \* whose frames each client's analyze request read
    loaded,            \* whose analyses each client's foul call read
    clientResponse,    \* each client's analyze response
    \* the paths the handlers build from an identifier
    platform,          \* "posix" or "win32": what path.join takes as separators
    ident,             \* the identifier a caller supplies (tokens)
    ppc,               \* "idle", "start", "written" or "done"
    bundles,           \* the paths of the bundle files on disk
    touched,           \* the file operations done: [by, op, path]
    pathStatus         \* status of the last response

requestVars == <<framesField, frames, diskFrames>>

analyzeVars ==
    <<pc, describeCalls, batchOutcome, text, i, frameResults, fallbackMode,
      frameAnalyses, summary, sequenceAnalysis, analysisFile, response>>

foulVars ==
    <<fpc, analysisId, kbOutcome, relevantRules, genCalls, genOutcome, genText,
      determination, foulFile, foulResponse>>

storeVars ==
    <<clientPc, clientId, frameStore, analysisStore, foulStore, framesRead, loaded,
      clientResponse>>

pathVars == <<platform, ident, ppc, bundles, touched, pathStatus>>

vars == <<requestVars, analyzeVars, foulVars, storeVars, pathVars>>

(***************************************************************************)
(* Bounds of the model.                                                     *)
(***************************************************************************)
MaxFrames == 2
MaxLines == 3
MaxGenLen == 4
MaxIndLen == 4
MaxBullets == 2
MaxIdLen == 3
MaxUp == 3

(***************************************************************************)
(* String primitives on token sequences.                                    *)
(***************************************************************************)
toLowerCase(t) ==
    CASE t = "FRAME" -> "frame"
      [] t = "SEQUENCE_ANALYSIS" -> "sequence_analysis"
      [] t = "PROGRESSION" -> "progression"
      [] t = "KEY_MOMENTS" -> "key_moments"
      [] t = "FOUL_DETERMINATION" -> "foul_determination"
      [] t = "ACTION" -> "action"
      [] t = "PLAYER_MOVEMENT" -> "player_movement"
      [] t = "CONTACT" -> "contact"
      [] t = "BALL_STATUS" -> "ball_status"
      [] t = "None" -> "none"
      [] t = "N/A" -> "n/a"
      [] t = "Push" -> "push"
      [] t = "W1" -> "w1"
      [] OTHER -> t

lower(s) == [k \in 1..Len(s) |-> toLowerCase(s[k])]

RECURSIVE trimStart(_)
trimStart(s) == IF s # <<>> /\ Head(s) = " " THEN trimStart(Tail(s)) ELSE s

RECURSIVE trimEnd(_)
trimEnd(s) ==
    IF s # <<>> /\ s[Len(s)] = " " THEN trimEnd(SubSeq(s, 1, Len(s) - 1)) ELSE s

trim(s) == trimEnd(trimStart(s))

startsWith(s, p) == Len(s) >= Len(p) /\ SubSeq(s, 1, Len(p)) = p

endsWith(s, p) == Len(s) >= Len(p) /\ SubSeq(s, Len(s) - Len(p) + 1, Len(s)) = p

\* s.replace(label, "") for a line that starts with label: the first
\* occurrence is the prefix.
removePrefix(s, p) == SubSeq(s, Len(p) + 1, Len(s))

Digits == {"0", "1", "2", "3", "4", "5", "6", "7", "8", "9"}

digitValue(t) ==
    CASE t = "0" -> 0 [] t = "1" -> 1 [] t = "2" -> 2 [] t = "3" -> 3
      [] t = "4" -> 4 [] t = "5" -> 5 [] t = "6" -> 6 [] t = "7" -> 7
      [] t = "8" -> 8 [] t = "9" -> 9

RECURSIVE parseInt(_)
parseInt(ds) ==
    IF ds = <<>> THEN 0
    ELSE 10 * parseInt(SubSeq(ds, 1, Len(ds) - 1)) + digitValue(ds[Len(ds)])

RECURSIVE skipSpaces(_, _)
skipSpaces(s, k) ==
    IF k <= Len(s) /\ s[k] = " " THEN skipSpaces(s, k + 1) ELSE k

RECURSIVE skipDigits(_, _)
skipDigits(s, k) ==
    IF k <= Len(s) /\ s[k] \in Digits THEN skipDigits(s, k + 1) ELSE k

\* Number of leading "*" of s, at most two: what ^\*?\*? consumes.
leadingStars(s) ==
    IF Len(s) >= 1 /\ s[1] = "*"
    THEN IF Len(s) >= 2 /\ s[2] = "*" THEN 2 ELSE 1
    ELSE 0

NoMatch == -1

\* trimmedLine.match(/^\*?\*?FRAME\s*(\d+):?\*?\*?/i): the parsed integer of
\* group 1, or NoMatch.
frameMatch(trimmedLine) ==
    LET k == leadingStars(trimmedLine) + 1 IN
    IF k <= Len(trimmedLine) /\ toLowerCase(trimmedLine[k]) = "frame"
    THEN LET d == skipSpaces(trimmedLine, k + 1)
             e == skipDigits(trimmedLine, d)
         IN IF e > d THEN parseInt(SubSeq(trimmedLine, d, e - 1)) ELSE NoMatch
    ELSE NoMatch

\* trimmedLine.match(/^\*?\*?SEQUENCE_ANALYSIS:?\*?\*?/i)
sequenceHeaderMatch(trimmedLine) ==
    LET k == leadingStars(trimmedLine) + 1 IN
    k <= Len(trimmedLine) /\ toLowerCase(trimmedLine[k]) = "sequence_analysis"

\* s.indexOf(t) on tokens: the least position of t in s, 0 when absent.
indexOfToken(s, t) ==
    IF \E k \in 1..Len(s) : s[k] = t
    THEN CHOOSE k \in 1..Len(s) : s[k] = t /\ \A j \in 1..(k - 1) : s[j] # t
    ELSE 0

\* s.split(","): the pieces between the separators ("" gives one empty piece).
RECURSIVE split(_, _)
split(s, sep) ==
    LET k == indexOfToken(s, sep) IN
    IF k = 0 THEN <<s>>
    ELSE <<SubSeq(s, 1, k - 1)>> \o split(SubSeq(s, k + 1, Len(s)), sep)

\* lines.indexOf(line): the least index of an equal line (1-based here).
indexOfLine(lines, line) ==
    CHOOSE k \in 1..Len(lines) :
        lines[k] = line /\ \A j \in 1..(k - 1) : lines[j] # line

(***************************************************************************)
(* parseFoulIndicators: the batch parser's indicator normalisation.         *)
(***************************************************************************)
keepIndicator(ind) ==
    Len(ind) > 0 /\ lower(ind) # <<"none">> /\ lower(ind) # <<"n/a">>

splitIndicators(cleaned) ==
    LET parts == split(cleaned, ",") IN
    SelectSeq([k \in 1..Len(parts) |-> trim(parts[k])], keepIndicator)

\* A normaliser that splits and trims but knows no placeholder.
parseFoulIndicatorsKeepsAll(indicators) ==
    LET parts == split(indicators, ",")
        nonEmpty(x) == Len(x) > 0
    IN SelectSeq([k \in 1..Len(parts) |-> trim(parts[k])], nonEmpty)

parseFoulIndicators(indicators) ==
    IF Len(indicators) = 0 THEN <<>>
    ELSE IF \/ indicators = <<"[", "]">>
            \/ indicators = <<"[", " ", "]">>
            \/ lower(indicators) = <<"none">>
            \/ lower(indicators) = <<"no", " ", "indicators">>
            \/ lower(indicators) = <<"n/a">>
    THEN <<>>
    ELSE LET cleaned ==
                 IF startsWith(indicators, <<"[">>) /\ endsWith(indicators, <<"]">>)
                 THEN trim(SubSeq(indicators, 2, Len(indicators) - 1))
                 ELSE indicators
         IN splitIndicators(cleaned)

(***************************************************************************)
(* parseMultiFrameAnalysis: the batch response parser.                      *)
(***************************************************************************)
\* currentFrame: null (started = FALSE) or a Partial<FrameAnalysis>; an unset
\* field and an empty one are both falsy, and both are <<>> here.
NullFrame ==
    [started |-> FALSE, action |-> <<>>, playerMovement |-> <<>>,
     contact |-> <<>>, ballStatus |-> <<>>, foulIndicators |-> <<>>]

NewFrame == [NullFrame EXCEPT !.started = TRUE]

\* x || dflt for a string x
orDefault(x, dflt) == IF x = <<>> THEN dflt ELSE x

\* frames[n - 1]?.timestamp || 0
timestampOf(frms, n) ==
    IF n \in 1..Len(frms) THEN frms[n].timestamp ELSE 0

\* The record pushed when a frame is flushed.
flushFrame(frms, currentFrame, currentFrameNumber) ==
    [frameNumber |-> currentFrameNumber,
     timestamp |-> timestampOf(frms, currentFrameNumber),
     action |-> orDefault(currentFrame.action, <<"Unknown action">>),
     playerMovement |-> orDefault(currentFrame.playerMovement, <<"Unknown movement">>),
     contact |-> orDefault(currentFrame.contact, <<"Unknown contact">>),
     ballStatus |-> orDefault(currentFrame.ballStatus, <<"Unknown ball status">>),
     foulIndicators |-> currentFrame.foulIndicators]

\* nextLine.match(/^(ACTION:|PLAYER_MOVEMENT:|CONTACT:|BALL_STATUS:|FRAME|SEQUENCE_ANALYSIS)/i)
stopLabelMatch(nextLine) ==
    /\ Len(nextLine) >= 1
    /\ \/ toLowerCase(nextLine[1]) \in {"frame", "sequence_analysis"}
       \/ /\ toLowerCase(nextLine[1]) \in
                 {"action", "player_movement", "contact", "ball_status"}
          /\ Len(nextLine) >= 2
          /\ nextLine[2] = ":"

\* The while loop of the bullet lookahead, from nextIndex on.
RECURSIVE bulletLookahead(_, _, _)
bulletLookahead(lines, nextIndex, bulletIndicators) ==
    IF nextIndex > Len(lines) THEN bulletIndicators
    ELSE LET nextLine == trim(lines[nextIndex]) IN
         IF startsWith(nextLine, <<"*">>) \/ startsWith(nextLine, <<"-">>)
         THEN LET bulletContent == trim(Tail(nextLine)) IN
              bulletLookahead(lines, nextIndex + 1,
                  IF bulletContent # <<>>
                  THEN Append(bulletIndicators, bulletContent)
                  ELSE bulletIndicators)
         ELSE IF stopLabelMatch(nextLine) THEN bulletIndicators
         ELSE IF nextLine = <<>>
         THEN bulletLookahead(lines, nextIndex + 1, bulletIndicators)
         ELSE bulletIndicators

\* The field branch of the loop body: currentFrame after the line.
parseField(lines, line, trimmedLine, currentFrame) ==
    IF startsWith(trimmedLine, <<"ACTION", ":">>)
    THEN [currentFrame EXCEPT
             !.action = trim(removePrefix(trimmedLine, <<"ACTION", ":">>))]
    ELSE IF startsWith(trimmedLine, <<"PLAYER_MOVEMENT", ":">>)
    THEN [currentFrame EXCEPT
             !.playerMovement =
                 trim(removePrefix(trimmedLine, <<"PLAYER_MOVEMENT", ":">>))]
    ELSE IF startsWith(trimmedLine, <<"CONTACT", ":">>)
    THEN [currentFrame EXCEPT
             !.contact = trim(removePrefix(trimmedLine, <<"CONTACT", ":">>))]
    ELSE IF startsWith(trimmedLine, <<"BALL_STATUS", ":">>)
    THEN [currentFrame EXCEPT
             !.ballStatus = trim(removePrefix(trimmedLine, <<"BALL_STATUS", ":">>))]
    ELSE IF startsWith(trimmedLine, <<"FOUL_INDICATORS", ":">>)
    THEN LET indicators == trim(removePrefix(trimmedLine, <<"FOUL_INDICATORS", ":">>)) IN
         IF indicators = <<>>
         THEN [currentFrame EXCEPT
                  !.foulIndicators =
                      bulletLookahead(lines, indexOfLine(lines, line) + 1, <<>>)]
         ELSE [currentFrame EXCEPT !.foulIndicators = parseFoulIndicators(indicators)]
    ELSE currentFrame

\* The for loop over the lines, from line k on; the result is the loop's
\* state when it ends (end of input, or the break at the sequence header).
RECURSIVE parseLoop(_, _, _, _, _, _)
parseLoop(lines, frms, k, currentFrame, currentFrameNumber, acc) ==
    IF k > Len(lines)
    THEN [currentFrame |-> currentFrame,
          currentFrameNumber |-> currentFrameNumber, frameAnalyses |-> acc]
    ELSE LET line == lines[k]
             trimmedLine == trim(line)
             m == frameMatch(trimmedLine)
         IN IF m # NoMatch
            THEN parseLoop(lines, frms, k + 1, NewFrame, m,
                     IF currentFrame.started /\ currentFrameNumber > 0
                     THEN Append(acc, flushFrame(frms, currentFrame, currentFrameNumber))
                     ELSE acc)
            ELSE LET cf == IF currentFrame.started /\ trimmedLine # <<>>
                           THEN parseField(lines, line, trimmedLine, currentFrame)
                           ELSE currentFrame
                 IN IF sequenceHeaderMatch(trimmedLine)
                    THEN [currentFrame |-> cf,
                          currentFrameNumber |-> currentFrameNumber,
                          frameAnalyses |-> acc]
                    ELSE parseLoop(lines, frms, k + 1, cf, currentFrameNumber, acc)

\* defaultEntries numbering the records by the zero-based map index.
defaultEntriesZeroBased(frms) ==
    [k \in 1..Len(frms) |->
        [frameNumber |-> k - 1,
         timestamp |-> frms[k].timestamp,
         action |-> <<"Failed to parse multi-frame analysis">>,
         playerMovement |-> <<"Unknown">>,
         contact |-> <<"Unknown">>,
         ballStatus |-> <<"Unknown">>,
         foulIndicators |-> <<>>]]

\* The default entries created when no frame was parsed.
defaultEntries(frms) ==
    [k \in 1..Len(frms) |->
        [frameNumber |-> k,
         timestamp |-> frms[k].timestamp,
         action |-> <<"Failed to parse multi-frame analysis">>,
         playerMovement |-> <<"Unknown">>,
         contact |-> <<"Unknown">>,
         ballStatus |-> <<"Unknown">>,
         foulIndicators |-> <<>>]]

\* The frames parsed from the text, before the zero-frames check.
parsedFrames(txt, frms) ==
    LET st == parseLoop(txt, frms, 1, NullFrame, 0, <<>>) IN
    IF st.currentFrame.started /\ st.currentFrameNumber > 0
    THEN Append(st.frameAnalyses,
                flushFrame(frms, st.currentFrame, st.currentFrameNumber))
    ELSE st.frameAnalyses

parseMultiFrameAnalysis(txt, frms) ==
    LET parsed == parsedFrames(txt, frms) IN
    IF Len(parsed) = 0 THEN defaultEntries(frms) ELSE parsed

(***************************************************************************)
(* extractSequenceAnalysis: the summary extractor.                          *)
(***************************************************************************)
\* The least position of keyword kw (compared case-insensitively) in s that
\* satisfies the side condition "something follows" when needMore; 0 if none.
keywordAt(s, kw, needMore) ==
    LET hits == {k \in 1..Len(s) :
                    toLowerCase(s[k]) = kw /\ (needMore => k < Len(s))}
    IN IF hits = {} THEN 0 ELSE CHOOSE k \in hits : \A j \in hits : k <= j

\* Number of "*" right before position k of s, at most two.
starsBefore(s, k) ==
    IF k >= 2 /\ s[k - 1] = "*"
    THEN IF k >= 3 /\ s[k - 2] = "*" THEN 2 ELSE 1
    ELSE 0

\* text.match(/\*?\*?SEQUENCE_ANALYSIS:?\*?\*?/i): the leftmost match in
\* the whole text as [line, pos], line = 0 when the text has none.
sequenceMatch(txt) ==
    LET hits == {k \in 1..Len(txt) : keywordAt(txt[k], "sequence_analysis", FALSE) # 0}
    IN IF hits = {} THEN [line |-> 0, pos |-> 0]
       ELSE LET ln == CHOOSE k \in hits : \A j \in hits : k <= j
                q == keywordAt(txt[ln], "sequence_analysis", FALSE)
            IN [line |-> ln, pos |-> q - starsBefore(txt[ln], q)]

\* trimmedLine.match(/\*?\*?<LABEL>:?\*?\*?\s*(.+)/i): group 1, or <<>> when
\* the line does not match (a match always captures at least one token).
\* The quantifiers after the label give back what they took when nothing
\* else is left for (.+).
labelMatch(trimmedLine, kw) ==
    LET q == keywordAt(trimmedLine, kw, TRUE) IN
    IF q = 0 THEN <<>>
    ELSE LET rest == SubSeq(trimmedLine, q + 1, Len(trimmedLine))
             c == IF rest[1] = ":" THEN 1 ELSE 0
             afterColon == SubSeq(rest, c + 1, Len(rest))
             st == leadingStars(afterColon)
             afterStars == SubSeq(afterColon, st + 1, Len(afterColon))
             left == trimStart(afterStars)
         IN IF left # <<>> THEN left ELSE <<rest[Len(rest)]>>

\* One iteration of the loop over the section's lines.
sequenceLine(analysis, line) ==
    LET trimmedLine == trim(line)
        progressionMatch == labelMatch(trimmedLine, "progression")
        keyMomentsMatch == labelMatch(trimmedLine, "key_moments")
        foulDeterminationMatch == labelMatch(trimmedLine, "foul_determination")
    IN IF progressionMatch # <<>>
       THEN [k \in DOMAIN analysis \cup {"progression"} |->
                IF k = "progression" THEN trim(progressionMatch) ELSE analysis[k]]
       ELSE IF keyMomentsMatch # <<>>
       THEN [k \in DOMAIN analysis \cup {"keyMoments"} |->
                IF k = "keyMoments" THEN trim(keyMomentsMatch) ELSE analysis[k]]
       ELSE IF foulDeterminationMatch # <<>>
       THEN [k \in DOMAIN analysis \cup {"foulDetermination"} |->
                IF k = "foulDetermination" THEN trim(foulDeterminationMatch)
                ELSE analysis[k]]
       ELSE analysis

RECURSIVE sequenceLoop(_, _, _)
sequenceLoop(lines, k, analysis) ==
    IF k > Len(lines) THEN analysis
    ELSE sequenceLoop(lines, k + 1, sequenceLine(analysis, lines[k]))

\* null is the object without keys: the function with the empty domain.
NullAnalysis == [k \in {} |-> <<>>]

extractSequenceAnalysis(txt) ==
    LET m == sequenceMatch(txt) IN
    \* !sequenceMatch || !sequenceMatch.index: index is 0 at the text's start
    IF m.line = 0 \/ (m.line = 1 /\ m.pos = 1) THEN NullAnalysis
    ELSE LET first == SubSeq(txt[m.line], m.pos, Len(txt[m.line]))
             lines == <<first>> \o SubSeq(txt, m.line + 1, Len(txt))
         IN sequenceLoop(lines, 1, NullAnalysis)

(***************************************************************************)
(* generateAnalysisSummary: the summary aggregator.                         *)
(***************************************************************************)
\* [...new Set(xs)]: first occurrences, in order.
\* The list as it is, in place of [...new Set(list)].
withDuplicates(xs) == xs

RECURSIVE unique(_)
unique(xs) ==
    IF xs = <<>> THEN <<>>
    ELSE LET init == unique(SubSeq(xs, 1, Len(xs) - 1))
             x == xs[Len(xs)]
         IN IF \E k \in 1..Len(init) : init[k] = x THEN init ELSE Append(init, x)

\* analyses.flatMap((a) => a.foulIndicators)
RECURSIVE flatIndicators(_)
flatIndicators(analyses) ==
    IF analyses = <<>> THEN <<>>
    ELSE Head(analyses).foulIndicators \o flatIndicators(Tail(analyses))

\* The number NaN, which is no percentage: Math.round never gives a negative
\* number here.
NaN == -1

\* Math.round((k / n) * 100): NaN when n = 0 (0 / 0); the nearest integer,
\* a half going up, otherwise (the double k / n * 100 rounds as the exact
\* quotient does for every n below 40).
roundPercentage(k, n) ==
    IF n = 0 THEN NaN ELSE (200 * k + n) \div (2 * n)

generateAnalysisSummary(analyses) ==
    LET totalFrames == Len(analyses)
        framesWithFoulIndicators ==
            Cardinality({k \in 1..Len(analyses) : Len(analyses[k].foulIndicators) > 0})
    IN [totalFrames |-> totalFrames,
        framesWithFoulIndicators |-> framesWithFoulIndicators,
        foulIndicatorPercentage |-> roundPercentage(framesWithFoulIndicators, totalFrames),
        commonFoulIndicators |-> unique(flatIndicators(analyses)),
        recommendation |->
            IF framesWithFoulIndicators > 0
            THEN "Potential foul detected - review flagged frames"
            ELSE "No clear foul indicators detected"]

(***************************************************************************)
(* parseAnalysisResponse: the single-frame parser of the fallback path.     *)
(***************************************************************************)
\* The FOUL_INDICATORS branch: the indicator list for a trimmed remainder.
fallbackIndicators(indicators) ==
    IF Len(indicators) > 0
    THEN IF indicators = <<"[", "]">> \/ indicators = <<"[", " ", "]">>
         THEN <<>>
         ELSE IF startsWith(indicators, <<"[">>) /\ endsWith(indicators, <<"]">>)
         THEN LET bracketContent == trim(SubSeq(indicators, 2, Len(indicators) - 1)) IN
              IF /\ bracketContent # <<>>
                 /\ lower(bracketContent) # <<"none">>
                 /\ lower(bracketContent) # <<"no", " ", "indicators">>
                 /\ lower(bracketContent) # <<"n/a">>
              THEN splitIndicators(bracketContent)
              ELSE <<>>
         ELSE IF /\ lower(indicators) # <<"none">>
                 /\ lower(indicators) # <<"no", " ", "indicators">>
                 /\ lower(indicators) # <<"no", " ", "foul", " ", "indicators">>
                 /\ lower(indicators) # <<"n/a">>
                 /\ lower(indicators) # <<"not", " ", "applicable">>
              THEN splitIndicators(indicators)
              ELSE <<>>
    ELSE <<>>

DefaultAnalysis ==
    [action |-> <<"Unknown action">>,
     playerMovement |-> <<"Unknown movement">>,
     contact |-> <<"Unknown contact">>,
     ballStatus |-> <<"Unknown ball status">>,
     foulIndicators |-> <<>>,
     analysisQuality |-> <<"fair">>]

\* One iteration of the loop over the lines.
analysisLine(analysis, line) ==
    LET trimmedLine == trim(line) IN
    IF startsWith(trimmedLine, <<"ACTION", ":">>)
    THEN [analysis EXCEPT !.action = trim(removePrefix(trimmedLine, <<"ACTION", ":">>))]
    ELSE IF startsWith(trimmedLine, <<"PLAYER_MOVEMENT", ":">>)
    THEN [analysis EXCEPT
             !.playerMovement =
                 trim(removePrefix(trimmedLine, <<"PLAYER_MOVEMENT", ":">>))]
    ELSE IF startsWith(trimmedLine, <<"CONTACT", ":">>)
    THEN [analysis EXCEPT !.contact = trim(removePrefix(trimmedLine, <<"CONTACT", ":">>))]
    ELSE IF startsWith(trimmedLine, <<"BALL_STATUS", ":">>)
    THEN [analysis EXCEPT
             !.ballStatus = trim(removePrefix(trimmedLine, <<"BALL_STATUS", ":">>))]
    ELSE IF startsWith(trimmedLine, <<"ANALYSIS_QUALITY", ":">>)
    THEN [analysis EXCEPT
             !.analysisQuality =
                 lower(trim(removePrefix(trimmedLine, <<"ANALYSIS_QUALITY", ":">>)))]
    ELSE IF startsWith(trimmedLine, <<"FOUL_INDICATORS", ":">>)
    THEN [analysis EXCEPT
             !.foulIndicators =
                 fallbackIndicators(
                     trim(removePrefix(trimmedLine, <<"FOUL_INDICATORS", ":">>)))]
    ELSE analysis

RECURSIVE analysisLoop(_, _, _)
analysisLoop(lines, k, analysis) ==
    IF k > Len(lines) THEN analysis
    ELSE analysisLoop(lines, k + 1, analysisLine(analysis, lines[k]))

parseAnalysisResponse(txt) == analysisLoop(txt, 1, DefaultAnalysis)

\* The record pushed for frame k (1-based) after a successful call.
analyzedFrame(frms, k, txt) ==
    LET analysis == parseAnalysisResponse(txt) IN
    [frameNumber |-> k,
     timestamp |-> frms[k].timestamp,
     action |-> analysis.action,
     playerMovement |-> analysis.playerMovement,
     contact |-> analysis.contact,
     ballStatus |-> analysis.ballStatus,
     foulIndicators |-> analysis.foulIndicators]

\* A sentinel record that does not take over the frame's timestamp.
failedFrameUnstamped(frms, k) ==
    [frameNumber |-> k,
     timestamp |-> 0,
     action |-> <<"Failed to analyze frame">>,
     playerMovement |-> <<"Unknown">>,
     contact |-> <<"Unknown">>,
     ballStatus |-> <<"Unknown">>,
     foulIndicators |-> <<>>]

\* The record pushed for frame k (1-based) in the catch of its iteration.
failedFrame(frms, k) ==
    [frameNumber |-> k,
     timestamp |-> frms[k].timestamp,
     action |-> <<"Failed to analyze frame">>,
     playerMovement |-> <<"Unknown">>,
     contact |-> <<"Unknown">>,
     ballStatus |-> <<"Unknown">>,
     foulIndicators |-> <<>>]


(***************************************************************************)
(* makeFinalDetermination: the generation model's text to a ruling.         *)
(* A generation response is a token sequence over "{", "}", prose and JSON  *)
(* members ("hasFoul:true", "foulType:x", ...).                             *)
(***************************************************************************)
MemberTokens ==
    {"hasFoul:true", "hasFoul:false", "confidence:high", "confidence:low",
     "foulType:x", "ruleCitations:[r]", "explanation:e", "keyMoments:[m]"}

\* A parsed JSON object: the keys it has and their values (a value of a key
\* it does not have is a filler).
EmptyObject ==
    [keys |-> {}, hasFoul |-> FALSE, confidence |-> "", foulType |-> "",
     ruleCitations |-> <<>>, explanation |-> "", keyMoments |-> <<>>]

withMember(o, t) ==
    CASE t = "hasFoul:true" ->
            [o EXCEPT !.keys = @ \cup {"hasFoul"}, !.hasFoul = TRUE]
      [] t = "hasFoul:false" ->
            [o EXCEPT !.keys = @ \cup {"hasFoul"}, !.hasFoul = FALSE]
      [] t = "confidence:high" ->
            [o EXCEPT !.keys = @ \cup {"confidence"}, !.confidence = "high"]
      [] t = "confidence:low" ->
            [o EXCEPT !.keys = @ \cup {"confidence"}, !.confidence = "low"]
      [] t = "foulType:x" ->
            [o EXCEPT !.keys = @ \cup {"foulType"}, !.foulType = "x"]
      [] t = "ruleCitations:[r]" ->
            [o EXCEPT !.keys = @ \cup {"ruleCitations"}, !.ruleCitations = <<"r">>]
      [] t = "explanation:e" ->
            [o EXCEPT !.keys = @ \cup {"explanation"}, !.explanation = "e"]
      [] t = "keyMoments:[m]" ->
            [o EXCEPT !.keys = @ \cup {"keyMoments"}, !.keyMoments = <<"m">>]

RECURSIVE objectOf(_)
objectOf(members) ==
    IF members = <<>> THEN EmptyObject
    ELSE withMember(objectOf(SubSeq(members, 1, Len(members) - 1)),
                    members[Len(members)])

\* text.match(/\{[\s\S]*\}/): [from, to] of the span from the first "{" to
\* the last "}" after it, from = 0 when there is none.
jsonMatch(txt) ==
    LET opens == {k \in 1..Len(txt) : txt[k] = "{"}
        closes == {k \in 1..Len(txt) : txt[k] = "}"}
        a == IF opens = {} THEN 0 ELSE CHOOSE k \in opens : \A j \in opens : k <= j
        b == IF closes = {} THEN 0 ELSE CHOOSE k \in closes : \A j \in closes : k >= j
    IN IF a > 0 /\ b > a THEN [from |-> a, to |-> b] ELSE [from |-> 0, to |-> 0]

\* JSON.parse of a "{" ... "}" span: it throws unless the span holds members
\* only.
jsonParses(span) ==
    \A k \in 2..(Len(span) - 1) : span[k] \in MemberTokens

JSONparse(span) == objectOf(SubSeq(span, 2, Len(span) - 1))

DefaultDetermination ==
    [keys |-> {"hasFoul", "confidence", "ruleCitations", "explanation", "keyMoments"},
     hasFoul |-> FALSE,
     confidence |-> "low",
     foulType |-> "",
     ruleCitations |-> <<>>,
     explanation |->
         "Unable to make a clear determination based on the available information.",
     keyMoments |-> <<>>]

\* makeFinalDetermination without the "if (jsonMatch)" test: jsonMatch[0] of
\* a null match throws.
makeFinalDeterminationUnguarded(txt) ==
    LET m == jsonMatch(txt) IN
    IF m.from > 0 /\ jsonParses(SubSeq(txt, m.from, m.to))
    THEN [threw |-> FALSE, value |-> JSONparse(SubSeq(txt, m.from, m.to))]
    ELSE [threw |-> TRUE, value |-> EmptyObject]

\* The try block of makeFinalDetermination once generateContent returned txt:
\* the value returned, or threw (the catch logs and rethrows).
makeFinalDetermination(txt) ==
    LET m == jsonMatch(txt) IN
    IF m.from > 0
    THEN LET span == SubSeq(txt, m.from, m.to) IN
         IF jsonParses(span)
         THEN [threw |-> FALSE, value |-> JSONparse(span)]
         ELSE [threw |-> TRUE, value |-> EmptyObject]
    ELSE [threw |-> FALSE, value |-> DefaultDetermination]

(***************************************************************************)
(* queryKnowledgeBase: the retrieval adapter.                               *)
(***************************************************************************)
KbOutcomes ==
    {"results", "undefinedResults", "ResourceNotFoundException", "clientFault",
     "otherError"}

PassageLists == { <<"rule1">>, <<"rule1", "rule2">> }

\* What queryKnowledgeBase returns: response.retrievalResults || [] when send
\* resolved, [] from either branch of the catch.
queryKnowledgeBase(outcome, passages) ==
    IF outcome = "results" THEN [threw |-> FALSE, value |-> passages]
    ELSE IF outcome = "undefinedResults" THEN [threw |-> FALSE, value |-> <<>>]
    ELSE IF outcome \in {"ResourceNotFoundException", "clientFault"}
    THEN [threw |-> FALSE, value |-> <<>>]
    ELSE [threw |-> FALSE, value |-> <<>>]


(***************************************************************************)
(* Inputs.                                                                  *)
(***************************************************************************)
\* All sequences over S of length at most n.
SeqsUpTo(S, n) == UNION {[1..k -> S] : k \in 0..n}

\* The frames of a request: paths 1..n; the upload route gives frame k the
\* timestamp k, another caller may send other timestamps.
TimestampBases == {0, 10}

FramesOf(n, base) == [k \in 1..n |-> [path |-> k, timestamp |-> base + k]]

FrameLists == {FramesOf(n, b) : n \in 0..MaxFrames, b \in TimestampBases}

\* Lines a batch response is made of.
ParseLines ==
    { <<"FRAME", " ", "1", ":">>,
      <<"*", "*", "FRAME", " ", "2", ":", "*", "*">>,
      <<"frame", "3">>,
      <<"FRAME", " ", "0", ":">>,
      <<"ACTION", ":", " ", "w1">>,
      <<"FOUL_INDICATORS", ":", " ", "w1", ",", " ", "w2">>,
      <<"FOUL_INDICATORS", ":">>,
      <<"*", " ", "w2">>,
      <<"w1">>,
      <<"SEQUENCE_ANALYSIS", ":">> }

ParseTexts == SeqsUpTo(ParseLines, MaxLines)

NoSummary == [totalFrames |-> 0, framesWithFoulIndicators |-> 0,
              foulIndicatorPercentage |-> 0, commonFoulIndicators |-> <<>>,
              recommendation |-> ""]

(***************************************************************************)
(* Well-formed batch responses: FRAME 1 .. FRAME n blocks in the prompt's   *)
(* format, each with its five field lines, then the sequence section.       *)
(***************************************************************************)
digitToken(k) ==
    CASE k = 0 -> "0" [] k = 1 -> "1" [] k = 2 -> "2" [] k = 3 -> "3"
      [] k = 4 -> "4" [] k = 5 -> "5" [] k = 6 -> "6" [] k = 7 -> "7"
      [] k = 8 -> "8" [] k = 9 -> "9"

FieldRemainders ==
    { <<"w1">>, <<"w1", " ", "w2">>, <<"Push", " ", "w1">> }

IndicatorRemainders ==
    { <<"w1", ",", " ", "w2">>, <<"None">>, <<"[", "w1", "]">> }

SequenceRemainders ==
    { <<"w1">>, <<"w1", " ", "w2">>, <<"the", " ", "progression", " ", "w2">> }

HeaderStyles == {"plain", "bold"}

frameHeader(k, style) ==
    IF style = "bold"
    THEN <<"*", "*", "FRAME", " ", digitToken(k), ":", "*", "*">>
    ELSE <<"FRAME", " ", digitToken(k), ":">>

frameBlock(k, style, a, f) ==
    << frameHeader(k, style),
       <<"ACTION", ":", " ">> \o a \o <<" ", digitToken(k)>>,
       <<"PLAYER_MOVEMENT", ":", " ", "moving">>,
       <<"CONTACT", ":", " ">> \o a,
       <<"BALL_STATUS", ":", " ", "w2", " ">>,
       <<"FOUL_INDICATORS", ":", " ">> \o f >>

RECURSIVE frameBlocks(_, _, _, _)
frameBlocks(n, style, a, f) ==
    IF n = 0 THEN <<>>
    ELSE frameBlocks(n - 1, style, a, f) \o frameBlock(n, style, a, f)

sequenceSection(style, p, km, fd) ==
    << IF style = "bold"
       THEN <<"*", "*", "SEQUENCE_ANALYSIS", ":", "*", "*">>
       ELSE <<"SEQUENCE_ANALYSIS", ":">>,
       <<"PROGRESSION", ":", " ">> \o p,
       <<"KEY_MOMENTS", ":", " ">> \o km,
       <<"FOUL_DETERMINATION", ":", " ">> \o fd >>

WellFormedText(n, style, a, f, p, km, fd) ==
    frameBlocks(n, style, a, f) \o sequenceSection(style, p, km, fd)

(***************************************************************************)
(* Values of the files and responses.                                       *)
(***************************************************************************)
NoFile ==
    [present |-> FALSE, analyses |-> <<>>, summary |-> NoSummary,
     sequenceAnalysis |-> NullAnalysis, fallbackMode |-> FALSE]

NoDetermination == [present |-> FALSE, value |-> EmptyObject]

NoResponse ==
    [status |-> 0, success |-> FALSE, kind |-> "none", analyses |-> <<>>,
     foulDetermination |-> NoDetermination]

NoFoulResponse == [status |-> 0, success |-> FALSE, value |-> EmptyObject]

\* Single-frame responses of the fallback path.
SingleTexts ==
    { << <<"ACTION", ":", " ", "w1">>,
         <<"FOUL_INDICATORS", ":", " ", "w1", ",", " ", "w2">> >>,
      << <<"w1">> >>,
      << <<"CONTACT", ":", " ", "Push", " ", "w1">>,
         <<"FOUL_INDICATORS", ":", " ", "[", "None", "]">> >> }

\* Batch responses of the whole pipeline: prose only, a complete response
\* for one frame, a response for frame 3 with bulleted indicators.
BatchTexts ==
    { << <<"w1">> >>,
      WellFormedText(1, "plain", <<"w1">>, <<"w1", ",", " ", "w2">>,
                     <<"w1">>, <<"w2">>, <<"w1">>),
      << <<"frame", "3">>, <<"FOUL_INDICATORS", ":">>, <<"*", " ", "w2">> >> }

\* Generation responses of the whole pipeline.
PipelineGenTexts ==
    { <<"prose">>,
      <<"prose", "{", "hasFoul:false", "confidence:low", "}", "prose">>,
      <<"{", "hasFoul:true", "foulType:x", "}">>,
      <<"{", "hasFoul:false", "foulType:x", "}">>,
      <<"{", "prose", "}">> }

\* Every generation response of at most MaxGenLen tokens.
GenTokens == {"{", "}", "prose", "hasFoul:true", "hasFoul:false", "foulType:x"}

AllGenTexts == SeqsUpTo(GenTokens, MaxGenLen)

(***************************************************************************)
(* The analyze handler: POST /api/analyze.                                   *)
(***************************************************************************)
\* if (!frames || !Array.isArray(frames)) return 400
ValidateReject ==
    /\ pc = "start"
    /\ framesField # "array"
    /\ response' = [NoResponse EXCEPT !.status = 400, !.kind = "invalid"]
    /\ pc' = "done"
    /\ UNCHANGED <<pathVars, storeVars, requestVars, foulVars, describeCalls, batchOutcome, text, i,
                   frameResults, fallbackMode, frameAnalyses, summary, sequenceAnalysis,
                   analysisFile>>

\* Promise.all(frames.map(readFile)): a frame that cannot be read rejects it
\* and the catch of the batch attempt starts the fallback.
LoadFrames ==
    /\ pc = "start"
    /\ framesField = "array"
    /\ IF \A k \in 1..Len(frames) : frames[k].path \in diskFrames
       THEN pc' = "batchCall" /\ UNCHANGED fallbackMode
       ELSE pc' = "fallback" /\ fallbackMode' = TRUE
    /\ UNCHANGED <<pathVars, storeVars, requestVars, foulVars, describeCalls, batchOutcome, text, i,
                   frameResults, frameAnalyses, summary, sequenceAnalysis, analysisFile, response>>

\* model.generateContent(content) throws or rejects (or response.text() does).
BatchCallThrows ==
    /\ pc = "batchCall"
    /\ describeCalls' = Append(describeCalls, 0)
    /\ batchOutcome' = "threw"
    /\ fallbackMode' = TRUE
    /\ pc' = "fallback"
    /\ UNCHANGED <<pathVars, storeVars, requestVars, foulVars, text, i, frameResults, frameAnalyses, summary,
                   sequenceAnalysis, analysisFile, response>>

\* model.generateContent(content) returns a text of the set texts.
BatchCallReturns(texts) ==
    /\ pc = "batchCall"
    /\ \E t \in texts : text' = t
    /\ describeCalls' = Append(describeCalls, 0)
    /\ batchOutcome' = "returned"
    /\ pc' = "batchReturned"
    /\ UNCHANGED <<pathVars, storeVars, requestVars, foulVars, i, frameResults, fallbackMode, frameAnalyses, summary,
                   sequenceAnalysis, analysisFile, response>>

\* const frameAnalyses = parseMultiFrameAnalysis(analysisText, frames), then
\* the summary and the sequence analysis the response and the bundle carry.
ParseResponse ==
    /\ pc = "batchReturned"
    /\ frameAnalyses' = parseMultiFrameAnalysis(text, frames)
    /\ summary' = generateAnalysisSummary(frameAnalyses')
    /\ sequenceAnalysis' = extractSequenceAnalysis(text)
    /\ pc' = "save"
    /\ UNCHANGED <<pathVars, storeVars, requestVars, foulVars, describeCalls, batchOutcome, text, i,
                   frameResults, fallbackMode, analysisFile, response>>

\* The bundle the handler writes.
analysisData ==
    [present |-> TRUE, analyses |-> frameAnalyses, summary |-> summary,
     sequenceAnalysis |-> IF fallbackMode THEN NullAnalysis ELSE sequenceAnalysis,
     fallbackMode |-> fallbackMode]

\* Batch path: mkdir and writeFile succeed.
SaveAnalysis ==
    /\ pc = "save"
    /\ analysisFile' = analysisData
    /\ pc' = "foulCall"
    /\ UNCHANGED <<pathVars, storeVars, requestVars, foulVars, describeCalls, batchOutcome, text, i,
                   frameResults, fallbackMode, frameAnalyses, summary, sequenceAnalysis, response>>

\* Batch path: mkdir or writeFile throws; the catch answers without saving.
SaveAnalysisFails ==
    /\ pc = "save"
    /\ response' = [status |-> 200, success |-> TRUE, kind |-> "saveWarning",
                    analyses |-> frameAnalyses, foulDetermination |-> NoDetermination]
    /\ pc' = "done"
    /\ UNCHANGED <<pathVars, storeVars, requestVars, foulVars, describeCalls, batchOutcome, text, i,
                   frameResults, fallbackMode, frameAnalyses, summary, sequenceAnalysis,
                   analysisFile>>

\* A fallback loop whose catch gives up on the remaining frames instead of
\* pushing a record and going on.
FallbackFrameFailsAborts ==
    /\ pc = "fallback"
    /\ i < Len(frames)
    /\ \/ /\ frames[i + 1].path \notin diskFrames
          /\ frameResults' = Append(frameResults, [outcome |-> "unreadable", text |-> <<>>])
          /\ UNCHANGED describeCalls
       \/ /\ frames[i + 1].path \in diskFrames
          /\ frameResults' = Append(frameResults, [outcome |-> "threw", text |-> <<>>])
          /\ describeCalls' = Append(describeCalls, i + 1)
    /\ i' = Len(frames)
    /\ UNCHANGED <<pathVars, storeVars, requestVars, foulVars, pc, batchOutcome, text, fallbackMode,
                   frameAnalyses, summary, sequenceAnalysis, analysisFile, response>>

frameResult(outcome, txt) == [outcome |-> outcome, text |-> txt]

\* One iteration of the fallback loop on frame i + 1 that ends in its catch:
\* readFile throws (no call is issued), or the single-frame call throws.
FallbackFrameFails ==
    /\ pc = "fallback"
    /\ i < Len(frames)
    /\ \/ /\ frames[i + 1].path \notin diskFrames
          /\ frameResults' = Append(frameResults, frameResult("unreadable", <<>>))
          /\ UNCHANGED describeCalls
       \/ /\ frames[i + 1].path \in diskFrames
          /\ frameResults' = Append(frameResults, frameResult("threw", <<>>))
          /\ describeCalls' = Append(describeCalls, i + 1)
    /\ frameAnalyses' = Append(frameAnalyses, failedFrame(frames, i + 1))
    /\ i' = i + 1
    /\ UNCHANGED <<pathVars, storeVars, requestVars, foulVars, pc, batchOutcome, text, fallbackMode,
                   summary, sequenceAnalysis, analysisFile, response>>

\* One iteration of the fallback loop on frame i + 1 whose single-frame call
\* returns a text of the set texts, which parseAnalysisResponse parses.
FallbackFrameAnalyzed(texts) ==
    /\ pc = "fallback"
    /\ i < Len(frames)
    /\ frames[i + 1].path \in diskFrames
    /\ describeCalls' = Append(describeCalls, i + 1)
    /\ \E t \in texts :
           /\ frameResults' = Append(frameResults, frameResult("returned", t))
           /\ frameAnalyses' = Append(frameAnalyses, analyzedFrame(frames, i + 1, t))
    /\ i' = i + 1
    /\ UNCHANGED <<pathVars, storeVars, requestVars, foulVars, pc, batchOutcome, text, fallbackMode,
                   summary, sequenceAnalysis, analysisFile, response>>

\* After the loop: the summary, then mkdir and writeFile succeed.
FallbackSave ==
    /\ pc = "fallback"
    /\ i = Len(frames)
    /\ summary' = generateAnalysisSummary(frameAnalyses)
    /\ analysisFile' = [analysisData EXCEPT !.summary = summary']
    /\ pc' = "foulCall"
    /\ UNCHANGED <<pathVars, storeVars, requestVars, foulVars, describeCalls, batchOutcome, text, i,
                   frameResults, fallbackMode, frameAnalyses, sequenceAnalysis, response>>

\* After the loop: mkdir or writeFile throws, out to the handler's catch.
FallbackSaveFails ==
    /\ pc = "fallback"
    /\ i = Len(frames)
    /\ response' = [NoResponse EXCEPT !.status = 500, !.kind = "failed"]
    /\ pc' = "done"
    /\ UNCHANGED <<pathVars, storeVars, requestVars, foulVars, describeCalls, batchOutcome, text, i,
                   frameResults, fallbackMode, frameAnalyses, summary, sequenceAnalysis,
                   analysisFile>>

\* fetch(.../api/foul, {analysisId: analysisTimestamp}) reaches the handler.
FoulFetch ==
    /\ pc = "foulCall"
    /\ fpc = "idle"
    /\ fpc' = "start"
    /\ analysisId' = "present"
    /\ pc' = "awaitFoul"
    /\ UNCHANGED <<pathVars, storeVars, requestVars, describeCalls, batchOutcome, text, i, frameResults, fallbackMode,
                   frameAnalyses, summary, sequenceAnalysis, analysisFile, response,
                   kbOutcome, relevantRules, genCalls, genOutcome, genText, determination,
                   foulFile, foulResponse>>

\* The analyze response: success with the analyses and the determination of
\* an ok foul response, null otherwise.
respondWith(det) ==
    [status |-> 200, success |-> TRUE,
     kind |-> IF fallbackMode THEN "fallback" ELSE "batch",
     analyses |-> frameAnalyses, foulDetermination |-> det]

\* fetch rejects (the loopback call is unreachable): the catch logs it.
FoulFetchFails ==
    /\ pc = "foulCall"
    /\ response' = respondWith(NoDetermination)
    /\ pc' = "done"
    /\ UNCHANGED <<pathVars, storeVars, requestVars, foulVars, describeCalls, batchOutcome, text, i,
                   frameResults, fallbackMode, frameAnalyses, summary, sequenceAnalysis,
                   analysisFile>>

\* The foul response arrived.
Respond ==
    /\ pc = "awaitFoul"
    /\ fpc = "done"
    /\ response' =
           respondWith(IF foulResponse.status = 200
                       THEN [present |-> TRUE, value |-> foulResponse.value]
                       ELSE NoDetermination)
    /\ pc' = "done"
    /\ UNCHANGED <<pathVars, storeVars, requestVars, foulVars, describeCalls, batchOutcome, text, i,
                   frameResults, fallbackMode, frameAnalyses, summary, sequenceAnalysis,
                   analysisFile>>

(***************************************************************************)
(* The foul handler: POST /api/foul.                                        *)
(***************************************************************************)
foulFailed == [NoFoulResponse EXCEPT !.status = 500]

\* if (!analysisId) return 400
FoulReject ==
    /\ fpc = "start"
    /\ analysisId = "missing"
    /\ foulResponse' = [NoFoulResponse EXCEPT !.status = 400]
    /\ fpc' = "done"
    /\ UNCHANGED <<pathVars, storeVars, requestVars, analyzeVars, analysisId, kbOutcome, relevantRules,
                   genCalls, genOutcome, genText, determination, foulFile>>

\* readFile(analysisPath) and JSON.parse, then extractKeyTerms; a missing
\* file throws to the handler's catch.
FoulLoad ==
    /\ fpc = "start"
    /\ analysisId = "present"
    /\ IF analysisFile.present
       THEN fpc' = "query" /\ UNCHANGED foulResponse
       ELSE fpc' = "done" /\ foulResponse' = foulFailed
    /\ UNCHANGED <<pathVars, storeVars, requestVars, analyzeVars, analysisId, kbOutcome, relevantRules,
                   genCalls, genOutcome, genText, determination, foulFile>>

\* const relevantRules = await queryKnowledgeBase(keyTerms)
FoulQuery ==
    /\ fpc = "query"
    /\ \E o \in KbOutcomes, p \in PassageLists :
           /\ o # "results" => p = <<"rule1">>
           /\ kbOutcome' = o
           /\ LET r == queryKnowledgeBase(o, p) IN
              IF r.threw
              THEN /\ fpc' = "done"
                   /\ foulResponse' = foulFailed
                   /\ UNCHANGED relevantRules
              ELSE /\ fpc' = "generate"
                   /\ relevantRules' = r.value
                   /\ UNCHANGED foulResponse
    /\ UNCHANGED <<pathVars, storeVars, requestVars, analyzeVars, analysisId, genCalls, genOutcome, genText,
                   determination, foulFile>>

\* makeFinalDetermination: model.generateContent(prompt) throws; the catch
\* rethrows to the handler's catch.
FoulGenerateThrows ==
    /\ fpc = "generate"
    /\ genCalls' = genCalls + 1
    /\ genOutcome' = "threw"
    /\ foulResponse' = foulFailed
    /\ fpc' = "done"
    /\ UNCHANGED <<pathVars, storeVars, requestVars, analyzeVars, analysisId, kbOutcome, relevantRules,
                   genText, determination, foulFile>>

\* makeFinalDetermination: model.generateContent(prompt) returns a text of
\* the set texts.
FoulGenerate(texts) ==
    /\ fpc = "generate"
    /\ genCalls' = genCalls + 1
    /\ genOutcome' = "returned"
    /\ \E t \in texts :
           /\ genText' = t
           /\ LET r == makeFinalDetermination(t) IN
              IF r.threw
              THEN /\ fpc' = "done"
                   /\ foulResponse' = foulFailed
                   /\ UNCHANGED determination
              ELSE /\ fpc' = "saveFoul"
                   /\ determination' = [present |-> TRUE, value |-> r.value]
                   /\ UNCHANGED foulResponse
    /\ UNCHANGED <<pathVars, storeVars, requestVars, analyzeVars, analysisId, kbOutcome, relevantRules,
                   foulFile>>

\* writeFile(foulPath, ...) succeeds and the handler answers.
FoulSave ==
    /\ fpc = "saveFoul"
    /\ foulFile' = determination
    /\ foulResponse' = [status |-> 200, success |-> TRUE, value |-> determination.value]
    /\ fpc' = "done"
    /\ UNCHANGED <<pathVars, storeVars, requestVars, analyzeVars, analysisId, kbOutcome, relevantRules,
                   genCalls, genOutcome, genText, determination>>

\* writeFile(foulPath, ...) throws, to the handler's catch.
FoulSaveFails ==
    /\ fpc = "saveFoul"
    /\ foulResponse' = foulFailed
    /\ fpc' = "done"
    /\ UNCHANGED <<pathVars, storeVars, requestVars, analyzeVars, analysisId, kbOutcome, relevantRules,
                   genCalls, genOutcome, genText, determination, foulFile>>

(***************************************************************************)
(* Specifications.                                                          *)
(***************************************************************************)
(***************************************************************************)
(* Two clients on the shared uploads directory.                             *)
(***************************************************************************)
Clients == {"a", "b"}

Ids == {"t1", "t2"}

\* No file: the content of a file is the client whose data it holds.
Nobody == "nobody"

EmptyStore == [d \in Ids |-> Nobody]

NoClientResponse == [status |-> 0, analyses |-> Nobody, foulDetermination |-> Nobody]

\* No client is at work (the single-request specifications).
StoresIdle ==
    /\ clientPc = [c \in Clients |-> "idle"]
    /\ clientId = [c \in Clients |-> "t1"]
    /\ frameStore = EmptyStore
    /\ analysisStore = EmptyStore
    /\ foulStore = EmptyStore
    /\ framesRead = [c \in Clients |-> Nobody]
    /\ loaded = [c \in Clients |-> Nobody]
    /\ clientResponse = [c \in Clients |-> NoClientResponse]
    /\ platform = "posix"
    /\ ident = <<>>
    /\ ppc = "idle"
    /\ bundles = {}
    /\ touched = {}
    /\ pathStatus = 0

AnalyzeFresh ==
    /\ describeCalls = <<>>
    /\ batchOutcome = "none"
    /\ text = <<>>
    /\ i = 0
    /\ frameResults = <<>>
    /\ fallbackMode = FALSE
    /\ frameAnalyses = <<>>
    /\ summary = NoSummary
    /\ sequenceAnalysis = NullAnalysis
    /\ response = NoResponse

FoulFresh ==
    /\ kbOutcome = "none"
    /\ relevantRules = <<>>
    /\ genCalls = 0
    /\ genOutcome = "none"
    /\ genText = <<>>
    /\ determination = NoDetermination
    /\ foulFile = NoDetermination
    /\ foulResponse = NoFoulResponse

\* A bundle a former analyze request left on disk.
StoredFile ==
    LET fa == <<analyzedFrame(FramesOf(1, 0), 1,
                    << <<"FOUL_INDICATORS", ":", " ", "w1">> >>)>>
    IN [present |-> TRUE, analyses |-> fa, summary |-> generateAnalysisSummary(fa),
        sequenceAnalysis |-> NullAnalysis, fallbackMode |-> TRUE]

\* A client posts an analyze request.
InitAnalyze ==
    /\ framesField \in {"array", "missing", "notArray"}
    /\ frames \in FrameLists
    /\ framesField # "array" => frames = <<>>
    /\ diskFrames \in SUBSET (1..MaxFrames)
    /\ pc = "start"
    /\ AnalyzeFresh
    /\ analysisFile = NoFile
    /\ fpc = "idle"
    /\ analysisId = "none"
    /\ FoulFresh
    /\ StoresIdle

\* A client posts a foul request.
InitFoul ==
    /\ framesField = "missing"
    /\ frames = <<>>
    /\ diskFrames = {}
    /\ pc = "none"
    /\ AnalyzeFresh
    /\ analysisFile \in {NoFile, StoredFile}
    /\ fpc = "start"
    /\ analysisId \in {"present", "missing"}
    /\ FoulFresh
    /\ StoresIdle

Init == InitAnalyze \/ InitFoul

AnalyzeNext ==
    \/ ValidateReject
    \/ LoadFrames
    \/ BatchCallThrows
    \/ BatchCallReturns(BatchTexts)
    \/ ParseResponse
    \/ SaveAnalysis
    \/ SaveAnalysisFails
    \/ FallbackFrameFails
    \/ FallbackFrameAnalyzed(SingleTexts)
    \/ FallbackSave
    \/ FallbackSaveFails
    \/ FoulFetch
    \/ FoulFetchFails
    \/ Respond

Next ==
    \/ AnalyzeNext
    \/ FoulReject
    \/ FoulLoad
    \/ FoulQuery
    \/ FoulGenerateThrows
    \/ FoulGenerate(PipelineGenTexts)
    \/ FoulSave
    \/ FoulSaveFails

Spec == Init /\ [][Next]_vars

\* The foul handler on every generation response.
NextFoul ==
    \/ FoulReject
    \/ FoulLoad
    \/ FoulQuery
    \/ FoulGenerateThrows
    \/ FoulGenerate(AllGenTexts)
    \/ FoulSave
    \/ FoulSaveFails

SpecFoul == InitFoul /\ [][NextFoul]_vars

\* The batch parser on any response text and frame list: the handler from
\* the point where the batch call has returned.
BatchReturned ==
    /\ framesField = "array"
    /\ diskFrames = {frames[k].path : k \in 1..Len(frames)}
    /\ pc = "batchReturned"
    /\ describeCalls = <<0>>
    /\ batchOutcome = "returned"
    /\ i = 0
    /\ frameResults = <<>>
    /\ fallbackMode = FALSE
    /\ frameAnalyses = <<>>
    /\ summary = NoSummary
    /\ sequenceAnalysis = NullAnalysis
    /\ response = NoResponse
    /\ analysisFile = NoFile
    /\ fpc = "idle"
    /\ analysisId = "none"
    /\ FoulFresh
    /\ StoresIdle

InitParse ==
    /\ frames \in FrameLists
    /\ text \in ParseTexts
    /\ BatchReturned

NextParse == ParseResponse

SpecParse == InitParse /\ [][NextParse]_vars

(***************************************************************************)
(* Claims about the batch parser (SpecParse).                               *)
(***************************************************************************)
\* C1: for any response text and N >= 1 input frames, the parser returns
\* exactly N FrameAnalysis records, never fewer and never more.
C1_ExactlyNRecords ==
    (pc = "save" /\ Len(frames) >= 1) => Len(frameAnalyses) = Len(frames)

\* C2: in the parser's output for N input frames every frameNumber lies in
\* 1..N and no two records share a frameNumber.
C2_FrameNumbersUniqueInRange ==
    (pc = "save" /\ Len(frames) >= 1) =>
        /\ \A k \in 1..Len(frameAnalyses) :
               frameAnalyses[k].frameNumber \in 1..Len(frames)
        /\ \A j, k \in 1..Len(frameAnalyses) :
               j # k => frameAnalyses[j].frameNumber # frameAnalyses[k].frameNumber

\* The text yields zero parsed frames: it has no frame header with a
\* positive number ahead of the sequence-analysis header.
ZeroParsed(txt) ==
    \A k \in 1..Len(txt) :
        frameMatch(trim(txt[k])) > 0 =>
            \E j \in 1..(k - 1) : sequenceHeaderMatch(trim(txt[j]))

\* C3: when the text yields zero parsed frames the parser returns N sentinel
\* records numbered 1..N in order, each with its own frame's timestamp and no
\* indicators; the aggregate then has no common indicators and recommends
\* "No clear foul indicators detected".
C3_ZeroParsedGivesSentinels ==
    (pc = "save" /\ ZeroParsed(text)) =>
        /\ Len(frameAnalyses) = Len(frames)
        /\ \A k \in 1..Len(frames) :
               /\ frameAnalyses[k].frameNumber = k
               /\ frameAnalyses[k].timestamp = frames[k].timestamp
               /\ frameAnalyses[k].foulIndicators = <<>>
               /\ frameAnalyses[k].action = <<"Failed to parse multi-frame analysis">>
               /\ frameAnalyses[k].playerMovement = <<"Unknown">>
               /\ frameAnalyses[k].contact = <<"Unknown">>
               /\ frameAnalyses[k].ballStatus = <<"Unknown">>
        /\ summary.commonFoulIndicators = <<>>
        /\ summary.recommendation = "No clear foul indicators detected"

\* A text of prose and field lines without a frame header, two frames with
\* timestamps of their own, parsed.
C3_Witness ==
    /\ pc = "save"
    /\ ZeroParsed(text)
    /\ Len(text) >= 2
    /\ Len(frames) = 2
    /\ frames[2].timestamp # 2
    /\ Len(frameAnalyses) = 2

(***************************************************************************)
(* The batch parser on well-formed responses.                              *)
(***************************************************************************)
InitWellFormed ==
    /\ frames \in {fl \in FrameLists : Len(fl) >= 1}
    /\ \E style \in HeaderStyles, a \in FieldRemainders, f \in IndicatorRemainders,
          p \in SequenceRemainders, km \in SequenceRemainders,
          fd \in SequenceRemainders :
           text = WellFormedText(Len(frames), style, a, f, p, km, fd)
    /\ BatchReturned

NextWellFormed == ParseResponse

SpecWellFormed == InitWellFormed /\ [][NextWellFormed]_vars

\* The trimmed remainder of a "LABEL: remainder" line.
remainderOf(line) == trim(SubSeq(trim(line), 3, Len(trim(line))))

\* The frame part of C4: record k carries number k, its frame's timestamp and
\* the trimmed remainders of block k's lines.
FramesAsWritten ==
    /\ Len(frameAnalyses) = Len(frames)
    /\ \A k \in 1..Len(frames) :
           LET b == 6 * (k - 1) IN
           /\ frameAnalyses[k].frameNumber = k
           /\ frameAnalyses[k].timestamp = frames[k].timestamp
           /\ frameAnalyses[k].action = remainderOf(text[b + 2])
           /\ frameAnalyses[k].playerMovement = remainderOf(text[b + 3])
           /\ frameAnalyses[k].contact = remainderOf(text[b + 4])
           /\ frameAnalyses[k].ballStatus = remainderOf(text[b + 5])
           /\ frameAnalyses[k].foulIndicators =
                  parseFoulIndicators(remainderOf(text[b + 6]))

\* The summary part of C4: all three sub-fields are set (to their lines'
\* remainders).
SummaryAsWritten ==
    LET b == 6 * Len(frames) IN
    /\ DOMAIN sequenceAnalysis = {"progression", "keyMoments", "foulDetermination"}
    /\ sequenceAnalysis["progression"] = remainderOf(text[b + 2])
    /\ sequenceAnalysis["keyMoments"] = remainderOf(text[b + 3])
    /\ sequenceAnalysis["foulDetermination"] = remainderOf(text[b + 4])

\* C4: for a well-formed response the parser returns N records numbered 1..N
\* whose fields are the trimmed remainders of their lines, and the summary
\* extractor returns a summary with all three sub-fields set.
C4_WellFormedResponseParsed ==
    pc = "save" => (FramesAsWritten /\ SummaryAsWritten)

\* The frame half alone (holds: the divergence of C4 is in the summary).
C4_FramesHalf == pc = "save" => FramesAsWritten


(***************************************************************************)
(* The fallback loop (specification Spec).                                  *)
(***************************************************************************)
\* The frames whose iteration of the fallback loop ended in its catch.
FailedPositions ==
    {k \in 1..Len(frameResults) : frameResults[k].outcome # "returned"}

\* The record has the values the catch of the loop writes.
IsSentinel(rec) ==
    /\ rec.action = <<"Failed to analyze frame">>
    /\ rec.playerMovement = <<"Unknown">>
    /\ rec.contact = <<"Unknown">>
    /\ rec.ballStatus = <<"Unknown">>
    /\ rec.foulIndicators = <<>>

\* The record carries what the single-frame parser read in the frame's
\* response.
IsAnalysisOf(rec, txt) ==
    /\ rec.action = parseAnalysisResponse(txt).action
    /\ rec.playerMovement = parseAnalysisResponse(txt).playerMovement
    /\ rec.contact = parseAnalysisResponse(txt).contact
    /\ rec.ballStatus = parseAnalysisResponse(txt).ballStatus
    /\ rec.foulIndicators = parseAnalysisResponse(txt).foulIndicators

\* C5: once the fallback loop has gone through the N frames with exactly one
\* failed frame, there are N records, numbered and timestamped after their
\* frames; the record at the failed position is the one sentinel (Unknown
\* fields, no indicators); every other frame, the ones after the failed frame
\* included, had its call issued and its record holds the parse of its
\* response.
C5_OneFailureKeepsNRecords ==
    (fallbackMode /\ i = Len(frames) /\ Cardinality(FailedPositions) = 1) =>
        /\ Len(frameAnalyses) = Len(frames)
        /\ \A k \in 1..Len(frames) :
               /\ frameAnalyses[k].frameNumber = k
               /\ frameAnalyses[k].timestamp = frames[k].timestamp
               /\ IF k \in FailedPositions
                  THEN IsSentinel(frameAnalyses[k])
                  ELSE /\ IsAnalysisOf(frameAnalyses[k], frameResults[k].text)
                       /\ \E c \in 1..Len(describeCalls) : describeCalls[c] = k
        /\ Cardinality({k \in 1..Len(frames) : IsSentinel(frameAnalyses[k])}) = 1

\* Two frames, the call of the first threw and the call of the second
\* returned; the request was answered.
C5_Witness ==
    /\ fallbackMode
    /\ Len(frames) = 2
    /\ Len(frameResults) = 2
    /\ frameResults[1].outcome = "threw"
    /\ frameResults[2].outcome = "returned"
    /\ IsSentinel(frameAnalyses[1])
    /\ ~IsSentinel(frameAnalyses[2])
    /\ response.status = 200

\* C6: the fallback runs, and a single-frame call is issued, only when the
\* batch call threw; when the batch call returned a text there is no
\* single-frame call and the request is not in fallback mode.
C6_FallbackOnlyWhenBatchThrows ==
    /\ (fallbackMode \/ \E c \in 1..Len(describeCalls) : describeCalls[c] # 0)
           => batchOutcome = "threw"
    /\ batchOutcome = "returned"
           => (~fallbackMode /\ \A c \in 1..Len(describeCalls) : describeCalls[c] = 0)

\* The half of C6 about a batch call that returned.
C6_NoFallbackAfterBatchText ==
    batchOutcome = "returned"
        => (~fallbackMode /\ \A c \in 1..Len(describeCalls) : describeCalls[c] = 0)

(***************************************************************************)
(* The determination step (specification SpecFoul).                         *)
(***************************************************************************)
\* There is no "{" with a "}" after it.
NoSpan(txt) ==
    ~ \E a \in 1..Len(txt), b \in 1..Len(txt) : a < b /\ txt[a] = "{" /\ txt[b] = "}"

\* The span from the first "{" to the last "}" exists and is not JSON.
UnparsableSpan(txt) ==
    /\ ~NoSpan(txt)
    /\ ~jsonParses(SubSeq(txt, jsonMatch(txt).from, jsonMatch(txt).to))

\* The conservative default, field by field.
IsConservativeDefault(det) ==
    /\ det.present
    /\ "hasFoul" \in det.value.keys /\ det.value.hasFoul = FALSE
    /\ "confidence" \in det.value.keys /\ det.value.confidence = "low"
    /\ "ruleCitations" \in det.value.keys /\ det.value.ruleCitations = <<>>
    /\ "keyMoments" \in det.value.keys /\ det.value.keyMoments = <<>>
    /\ "explanation" \in det.value.keys /\ det.value.explanation # ""

\* C7: when the generation response holds a "{" ... "}" span that is not
\* JSON, the determination is the conservative default, the model was called
\* once, and the step has not failed.
C7_UnparsableSpanGivesDefault ==
    (genOutcome = "returned" /\ UnparsableSpan(genText)) =>
        /\ IsConservativeDefault(determination)
        /\ genCalls = 1

\* C8: when the generation response holds no "{" ... "}" span, the
\* determination is hasFoul false, confidence low, no citations, no key
\* moments, with an explanation, and the model was called exactly once.
C8_NoSpanGivesDefault ==
    (genOutcome = "returned" /\ NoSpan(genText)) =>
        /\ IsConservativeDefault(determination)
        /\ genCalls = 1

\* A response with braces but no span ("}" before "{"), answered with the
\* default.
C8_Witness ==
    /\ genOutcome = "returned"
    /\ NoSpan(genText)
    /\ \E a \in 1..Len(genText) : genText[a] = "{"
    /\ \E b \in 1..Len(genText) : genText[b] = "}"
    /\ IsConservativeDefault(determination)
    /\ foulFile = determination
    /\ foulResponse.status = 200

\* foulType is defined iff hasFoul is true.
FoulTypeIffHasFoul(o) ==
    ("foulType" \in o.keys) <=> ("hasFoul" \in o.keys /\ o.hasFoul)

\* C9: every determination the step returns, persists or answers with has
\* foulType defined iff its hasFoul is true.
C9_FoulTypeIffHasFoul ==
    /\ determination.present => FoulTypeIffHasFoul(determination.value)
    /\ foulFile.present => FoulTypeIffHasFoul(foulFile.value)
    /\ foulResponse.status = 200 => FoulTypeIffHasFoul(foulResponse.value)

\* The retrieval call failed.
RetrievalFailed ==
    kbOutcome \in {"ResourceNotFoundException", "clientFault", "otherError"}

\* C10: after a failed retrieval the passage list is empty, the generation
\* model is still called, and when it answers the step returns a
\* determination.
C10_RetrievalFailureStillDetermines ==
    (RetrievalFailed /\ fpc # "query") =>
        /\ relevantRules = <<>>
        /\ fpc \in {"generate", "saveFoul", "done"}
        /\ fpc # "generate" => genCalls = 1
        /\ genOutcome = "returned" => determination.present

\* The half of C10 about the adapter: a failed retrieval gives the empty
\* list and the step goes on to the generation call.
C10_AdapterDegrades ==
    (RetrievalFailed /\ fpc # "query") =>
        /\ relevantRules = <<>>
        /\ fpc # "generate" => genCalls = 1

(***************************************************************************)
(* The indicator normalisation on its two call sites (specification         *)
(* SpecNormalize): one frame whose FOUL_INDICATORS: line has a remainder of *)
(* IndicatorInputs, read by the batch parser or by the fallback parser.      *)
(***************************************************************************)
IndTokens == {"w1", "W1", "None", "N/A", ",", " ", "[", "]"}

\* Placeholder phrases the parsers name, bare, bracketed and in a list.
PhraseInputs ==
    LET phrases == { <<"no", " ", "indicators">>,
                     <<"no", " ", "foul", " ", "indicators">>,
                     <<"not", " ", "applicable">>,
                     <<"none">>, <<"n/a">> }
    IN UNION { { ph,
                 <<"[">> \o ph \o <<"]">>,
                 ph \o <<",">>,
                 ph \o <<",", " ", "w1">> } : ph \in phrases }

IndicatorInputs == SeqsUpTo(IndTokens, MaxIndLen) \cup PhraseInputs

indicatorLine(rem) == <<"FOUL_INDICATORS", ":", " ">> \o rem

BatchIndicatorTexts ==
    { << <<"FRAME", " ", "1", ":">>, indicatorLine(rem) >> : rem \in IndicatorInputs }

SingleIndicatorTexts == { << indicatorLine(rem) >> : rem \in IndicatorInputs }

\* The batch call returned, or it threw and the fallback loop starts.
InitNormalize ==
    /\ frames = FramesOf(1, 0)
    /\ \/ /\ text \in BatchIndicatorTexts
          /\ BatchReturned
       \/ /\ text = <<>>
          /\ framesField = "array"
          /\ diskFrames = {1}
          /\ pc = "fallback"
          /\ describeCalls = <<0>>
          /\ batchOutcome = "threw"
          /\ i = 0
          /\ frameResults = <<>>
          /\ fallbackMode = TRUE
          /\ frameAnalyses = <<>>
          /\ summary = NoSummary
          /\ sequenceAnalysis = NullAnalysis
          /\ response = NoResponse
          /\ analysisFile = NoFile
          /\ fpc = "idle"
          /\ analysisId = "none"
          /\ FoulFresh
          /\ StoresIdle

NextNormalize ==
    \/ ParseResponse
    \/ FallbackFrameAnalyzed(SingleIndicatorTexts)

SpecNormalize == InitNormalize /\ [][NextNormalize]_vars

\* The remainder of a FOUL_INDICATORS: line, as both parsers cut it.
indicatorsOf(line) == trim(removePrefix(trim(line), <<"FOUL_INDICATORS", ":">>))

\* The batch parser has read the frame: the remainder it was given.
BatchSiteDone == pc = "save" /\ Len(text) = 2 /\ Len(frameAnalyses) = 1

\* The fallback parser has read the frame.
SingleSiteDone ==
    /\ pc = "fallback"
    /\ Len(frameResults) = 1
    /\ frameResults[1].outcome = "returned"
    /\ Len(frameResults[1].text) = 1

IsPlaceholder(x) ==
    \/ x = <<>>
    \/ x = <<"[", "]">>
    \/ lower(x) = <<"none">>
    \/ lower(x) = <<"n/a">>

\* C14: "none", "[]", "N/A" and "", in any letter case, give the empty
\* indicator list, from the batch parser and from the fallback parser.
C14_PlaceholdersGiveEmpty ==
    /\ (BatchSiteDone /\ IsPlaceholder(indicatorsOf(text[2])))
           => frameAnalyses[1].foulIndicators = <<>>
    /\ (SingleSiteDone /\ IsPlaceholder(indicatorsOf(frameResults[1].text[1])))
           => frameAnalyses[1].foulIndicators = <<>>

\* The batch parser read "FOUL_INDICATORS: N/A".
C14_Witness ==
    /\ BatchSiteDone
    /\ indicatorsOf(text[2]) = <<"N/A">>
    /\ frameAnalyses[1].foulIndicators = <<>>

\* C15: for a non-empty remainder the batch parser and the fallback parser
\* give the same indicator list.
C15_BothSitesAgree ==
    /\ (BatchSiteDone /\ indicatorsOf(text[2]) # <<>>)
           => frameAnalyses[1].foulIndicators
                  = parseAnalysisResponse(<<text[2]>>).foulIndicators
    /\ (SingleSiteDone /\ indicatorsOf(frameResults[1].text[1]) # <<>>)
           => frameAnalyses[1].foulIndicators
                  = parseFoulIndicators(indicatorsOf(frameResults[1].text[1]))

\* list.join(","): the entries with a comma between them.
RECURSIVE joinComma(_)
joinComma(list) ==
    IF list = <<>> THEN <<>>
    ELSE IF Len(list) = 1 THEN list[1]
    ELSE list[1] \o <<",">> \o joinComma(Tail(list))

elements(list) == {list[k] : k \in 1..Len(list)}

\* C16: normalising the comma-joined output of the normaliser gives the set
\* of indicators it came from.
C16_NormalizeIdempotent ==
    (BatchSiteDone /\ indicatorsOf(text[2]) # <<>>) =>
        elements(parseFoulIndicators(joinComma(frameAnalyses[1].foulIndicators)))
            = elements(frameAnalyses[1].foulIndicators)

\* No two entries of the list are equal but for letter case.
NoDuplicates(list) ==
    \A a \in 1..Len(list), b \in 1..Len(list) :
        a # b => lower(list[a]) # lower(list[b])

\* C17: the indicator list of a frame holds no two entries equal under
\* case-insensitive comparison, on both call sites.
C17_NoDuplicateIndicators ==
    (BatchSiteDone \/ SingleSiteDone) => NoDuplicates(frameAnalyses[1].foulIndicators)

(***************************************************************************)
(* The outcomes of an analyze request (specification Spec).                 *)
(***************************************************************************)
\* C11: an answered analyze request is a success carrying a determination or
\* a failure with the validation message; a success never goes without a
\* determination.
C11_SuccessCarriesDetermination ==
    pc = "done" =>
        \/ /\ response.status = 200
           /\ response.success
           /\ response.foulDetermination.present
        \/ /\ response.status = 400
           /\ ~response.success
           /\ response.kind = "invalid"

\* The analyze request was answered after mkdir or writeFile of the bundle
\* threw (the two answers only a failed write gives).
BundleWriteFailed ==
    pc = "done" /\ response.kind \in {"saveWarning", "failed"}

\* The foul request was answered with the determination made and the foul
\* file not written.
FoulWriteFailed ==
    fpc = "done" /\ determination.present /\ ~foulFile.present

\* C12: a failed write of the bundle (batch or fallback path) or of the foul
\* file does not fail the request: the answer is a success with the
\* in-memory result.
C12_WriteFailureStillSucceeds ==
    /\ BundleWriteFailed =>
           /\ response.status = 200
           /\ response.success
           /\ response.analyses = frameAnalyses
    /\ FoulWriteFailed =>
           /\ foulResponse.status = 200
           /\ foulResponse.success
           /\ foulResponse.value = determination.value

\* The part of C12 about the batch path.
C12_BatchWriteFailureStillSucceeds ==
    (BundleWriteFailed /\ ~fallbackMode) =>
        /\ response.status = 200
        /\ response.success
        /\ response.analyses = frameAnalyses

(***************************************************************************)
(* Validation (specification Spec).                                         *)
(***************************************************************************)
\* The analyze request was rejected with no work done.
AnalyzeRejected ==
    /\ pc = "done"
    /\ response.status = 400
    /\ ~response.success
    /\ describeCalls = <<>>
    /\ ~analysisFile.present
    /\ fpc = "idle"

\* The foul request was rejected with no work done.
FoulRejected ==
    /\ fpc = "done"
    /\ foulResponse.status = 400
    /\ ~foulResponse.success
    /\ kbOutcome = "none"
    /\ genCalls = 0
    /\ ~foulFile.present

\* C13: an analyze request with no frame list, a frame list that is not an
\* array, or zero frames, and a foul request with no analysis identifier,
\* is answered 400 before any model call, file read or file write.
C13_InvalidRequestRejected ==
    /\ (pc \notin {"start", "none"} /\ (framesField # "array" \/ Len(frames) = 0))
           => AnalyzeRejected
    /\ (analysisId = "missing" /\ fpc # "start") => FoulRejected

\* The part of C13 about a missing or malformed frame list and a missing
\* analysis identifier.
C13_MissingFieldRejected ==
    /\ (pc \notin {"start", "none"} /\ framesField # "array") => AnalyzeRejected
    /\ (analysisId = "missing" /\ fpc # "start") => FoulRejected

(***************************************************************************)
(* The summary (specification SpecParse).                                   *)
(***************************************************************************)
\* The frames of the list with a non-empty indicator list.
FramesWithIndicators(analyses) ==
    {k \in 1..Len(analyses) : analyses[k].foulIndicators # <<>>}

\* p is 100 * k / n rounded to the nearest integer, a half going up.
IsRoundedPercentage(p, k, n) ==
    /\ p \in 0..100
    /\ 2 * n * p <= 200 * k + n
    /\ 200 * k + n < 2 * n * p + 2 * n

\* C18: the summary of a list has totalFrames the length of the list,
\* framesWithFoulIndicators the number of frames with indicators, and
\* foulIndicatorPercentage the rounded percentage, an integer in 0..100.
C18_SummaryCounts ==
    pc = "save" =>
        /\ summary.totalFrames = Len(frameAnalyses)
        /\ summary.framesWithFoulIndicators
               = Cardinality(FramesWithIndicators(frameAnalyses))
        /\ IsRoundedPercentage(summary.foulIndicatorPercentage,
                               summary.framesWithFoulIndicators,
                               summary.totalFrames)

\* The part of C18 about a list that is not empty.
C18_NonEmptySummaryCounts ==
    (pc = "save" /\ frameAnalyses # <<>>) =>
        /\ summary.totalFrames = Len(frameAnalyses)
        /\ summary.framesWithFoulIndicators
               = Cardinality(FramesWithIndicators(frameAnalyses))
        /\ IsRoundedPercentage(summary.foulIndicatorPercentage,
                               summary.framesWithFoulIndicators,
                               summary.totalFrames)

\* C19: commonFoulIndicators holds every indicator of every frame, nothing
\* else, and each once (specification SpecWellFormed).
C19_CommonIsDedupedUnion ==
    pc = "save" =>
        /\ elements(summary.commonFoulIndicators)
               = UNION {elements(frameAnalyses[k].foulIndicators) :
                            k \in 1..Len(frameAnalyses)}
        /\ \A a \in 1..Len(summary.commonFoulIndicators),
              b \in 1..Len(summary.commonFoulIndicators) :
               a # b => summary.commonFoulIndicators[a] # summary.commonFoulIndicators[b]

\* Two frames with the same two indicators each: the aggregate has the two.
C19_Witness ==
    /\ pc = "save"
    /\ Len(frameAnalyses) = 2
    /\ frameAnalyses[1].foulIndicators = << <<"w1">>, <<"w2">> >>
    /\ frameAnalyses[2].foulIndicators = << <<"w1">>, <<"w2">> >>
    /\ summary.commonFoulIndicators = << <<"w1">>, <<"w2">> >>

(***************************************************************************)
(* Bulleted indicators (specification SpecBullets): FRAME 1 .. FRAME n,     *)
(* each with an empty FOUL_INDICATORS: line and its bullet lines.           *)
(***************************************************************************)
EmptyIndicatorLines ==
    { <<"FOUL_INDICATORS", ":">>, <<"FOUL_INDICATORS", ":", " ">> }

BulletLines == { <<"*", " ", "w1">>, <<"-", " ", "w2">> }

BulletLists == {b \in SeqsUpTo(BulletLines, MaxBullets) : b # <<>>}

LinesAfterBullets == { <<>>, << <<"BALL_STATUS", ":", " ", "w1">> >> }

bulletBlocks(k) ==
    { << frameHeader(k, "plain"), fi >> \o b \o after :
          fi \in EmptyIndicatorLines, b \in BulletLists, after \in LinesAfterBullets }

RECURSIVE bulletTexts(_)
bulletTexts(n) ==
    IF n = 0 THEN { <<>> }
    ELSE { t \o block : t \in bulletTexts(n - 1), block \in bulletBlocks(n) }

InitBullets ==
    /\ \E n \in 1..MaxFrames :
           /\ frames = FramesOf(n, 0)
           /\ text \in bulletTexts(n)
    /\ BatchReturned

NextBullets == ParseResponse

SpecBullets == InitBullets /\ [][NextBullets]_vars

\* The positions of the FOUL_INDICATORS: lines of a text, in order.
indicatorLinePositions(txt) ==
    {p \in 1..Len(txt) : startsWith(trim(txt[p]), <<"FOUL_INDICATORS", ":">>)}

\* The k-th least element of a set of positions.
kthPosition(ps, k) ==
    CHOOSE p \in ps : Cardinality({q \in ps : q <= p}) = k

\* The contents of the bullet lines from line p on.
RECURSIVE bulletsFrom(_, _)
bulletsFrom(txt, p) ==
    IF p <= Len(txt) /\ txt[p] # <<>> /\ txt[p][1] \in {"*", "-"}
    THEN <<trim(Tail(txt[p]))>> \o bulletsFrom(txt, p + 1)
    ELSE <<>>

\* Frame k has the bullets that follow its own FOUL_INDICATORS: line.
OwnBullets(k) ==
    frameAnalyses[k].foulIndicators
        = bulletsFrom(text, kthPosition(indicatorLinePositions(text), k) + 1)

\* C20: every frame of the response has, as its indicators, the contents of
\* the bullet lines after its own empty FOUL_INDICATORS: line, in order.
C20_BulletsOfOwnFrame ==
    pc = "save" =>
        /\ Len(frameAnalyses) = Len(frames)
        /\ \A k \in 1..Len(frames) : OwnBullets(k)

\* The part of C20 about responses whose FOUL_INDICATORS: lines differ
\* textually from one another.
C20_BulletsWhenLinesDiffer ==
    (pc = "save" /\ \A p, q \in indicatorLinePositions(text) :
                        p # q => text[p] # text[q]) =>
        /\ Len(frameAnalyses) = Len(frames)
        /\ \A k \in 1..Len(frames) : OwnBullets(k)

(***************************************************************************)
(* Two clients, each uploading a clip and analyzing its frames, on the      *)
(* shared uploads directory (specification SpecClients).                    *)
(***************************************************************************)
\* The single-request handlers are not at work.
PipelineIdle ==
    /\ framesField = "missing"
    /\ frames = <<>>
    /\ diskFrames = {}
    /\ pc = "none"
    /\ AnalyzeFresh
    /\ analysisFile = NoFile
    /\ fpc = "idle"
    /\ analysisId = "none"
    /\ FoulFresh

\* Each client is about to upload; the timestamps the two requests carry
\* are equal or not.
InitClients ==
    /\ PipelineIdle
    /\ clientPc = [c \in Clients |-> "upload"]
    /\ clientId \in [Clients -> Ids]
    /\ frameStore = EmptyStore
    /\ analysisStore = EmptyStore
    /\ foulStore = EmptyStore
    /\ framesRead = [c \in Clients |-> Nobody]
    /\ loaded = [c \in Clients |-> Nobody]
    /\ clientResponse = [c \in Clients |-> NoClientResponse]
    /\ platform = "posix"
    /\ ident = <<>>
    /\ ppc = "idle"
    /\ bundles = {}
    /\ touched = {}
    /\ pathStatus = 0

\* upload: "Clean up previous uploads": unlink every file of uploads/frames
\* and of uploads/analyses.
UploadCleanup(c) ==
    /\ clientPc[c] = "upload"
    /\ frameStore' = EmptyStore
    /\ analysisStore' = EmptyStore
    /\ foulStore' = EmptyStore
    /\ clientPc' = [clientPc EXCEPT ![c] = "extract"]
    /\ UNCHANGED <<pathVars, requestVars, analyzeVars, foulVars, clientId, framesRead, loaded,
                   clientResponse>>

\* upload: ffmpeg writes frames_<timestamp>_NN.jpg and the handler answers
\* with their paths.
UploadExtract(c) ==
    /\ clientPc[c] = "extract"
    /\ frameStore' = [frameStore EXCEPT ![clientId[c]] = c]
    /\ clientPc' = [clientPc EXCEPT ![c] = "analyze"]
    /\ UNCHANGED <<pathVars, requestVars, analyzeVars, foulVars, clientId, analysisStore,
                   foulStore, framesRead, loaded, clientResponse>>

\* analyze: readFile of the frames (a missing frame ends in the fallback's
\* sentinel records) and the describe calls.
AnalyzeRead(c) ==
    /\ clientPc[c] = "analyze"
    /\ framesRead' = [framesRead EXCEPT ![c] = frameStore[clientId[c]]]
    /\ clientPc' = [clientPc EXCEPT ![c] = "save"]
    /\ UNCHANGED <<pathVars, requestVars, analyzeVars, foulVars, clientId, frameStore,
                   analysisStore, foulStore, loaded, clientResponse>>

\* analyze: writeFile(analysis_<timestamp>.json) with the request's analyses.
AnalyzeWrite(c) ==
    /\ clientPc[c] = "save"
    /\ analysisStore' = [analysisStore EXCEPT ![clientId[c]] = c]
    /\ clientPc' = [clientPc EXCEPT ![c] = "foul"]
    /\ UNCHANGED <<pathVars, requestVars, analyzeVars, foulVars, clientId, frameStore,
                   foulStore, framesRead, loaded, clientResponse>>

\* foul: readFile(analysis_<analysisId>.json); a missing file ends the foul
\* call with 500 and the analyze request with foulDetermination null.
FoulRead(c) ==
    /\ clientPc[c] = "foul"
    /\ IF analysisStore[clientId[c]] = Nobody
       THEN /\ clientResponse' =
                   [clientResponse EXCEPT
                       ![c] = [status |-> 200, analyses |-> c,
                               foulDetermination |-> Nobody]]
            /\ clientPc' = [clientPc EXCEPT ![c] = "done"]
            /\ UNCHANGED loaded
       ELSE /\ loaded' = [loaded EXCEPT ![c] = analysisStore[clientId[c]]]
            /\ clientPc' = [clientPc EXCEPT ![c] = "foulSave"]
            /\ UNCHANGED clientResponse
    /\ UNCHANGED <<pathVars, requestVars, analyzeVars, foulVars, clientId, frameStore,
                   analysisStore, foulStore, framesRead>>

\* foul: the determination from the analyses read, writeFile(foul_<id>.json),
\* and the analyze request answers with it.
FoulWrite(c) ==
    /\ clientPc[c] = "foulSave"
    /\ foulStore' = [foulStore EXCEPT ![clientId[c]] = loaded[c]]
    /\ clientResponse' =
           [clientResponse EXCEPT
               ![c] = [status |-> 200, analyses |-> c,
                       foulDetermination |-> loaded[c]]]
    /\ clientPc' = [clientPc EXCEPT ![c] = "done"]
    /\ UNCHANGED <<pathVars, requestVars, analyzeVars, foulVars, clientId, frameStore,
                   analysisStore, framesRead, loaded>>

NextClients ==
    \E c \in Clients :
        \/ UploadCleanup(c)
        \/ UploadExtract(c)
        \/ AnalyzeRead(c)
        \/ AnalyzeWrite(c)
        \/ FoulRead(c)
        \/ FoulWrite(c)

SpecClients == InitClients /\ [][NextClients]_vars

\* The step changed a file stored under identifier d.
Touched(d) ==
    \/ frameStore'[d] # frameStore[d]
    \/ analysisStore'[d] # analysisStore[d]
    \/ foulStore'[d] # foulStore[d]

\* C21: a step that removes or changes the frames, the analysis bundle or
\* the foul file stored under an identifier is a step of a request that
\* carries this identifier.
C21_OtherIdentifiersUntouched ==
    [][\A d \in Ids :
           Touched(d) => \E c \in Clients : clientId[c] = d /\ clientPc'[c] # clientPc[c]]_vars

\* The part of C21 about analyze and determine: their steps leave the files
\* of other identifiers alone.
C21_AnalyzeLeavesOthersAlone ==
    [][\A d \in Ids :
           (Touched(d) /\ \A c \in Clients : clientPc[c] = "upload" => clientPc'[c] = "upload")
               => \E c \in Clients : clientId[c] = d /\ clientPc'[c] # clientPc[c]]_vars

(***************************************************************************)
(* The paths the handlers build from a caller's identifier (specification   *)
(* SpecPaths). An identifier is a sequence of the tokens "x" (a run of      *)
(* plain characters), ".", "..", "/" and "\"; a path is a sequence of       *)
(* segments below the file system root, a segment a sequence of tokens.     *)
(***************************************************************************)
PathTokens == {"x", ".", "..", "/", "\\"}

\* str.includes(".."): a ".." token or two "." in a row.
includesDotDot(str) ==
    \/ \E k \in 1..Len(str) : str[k] = ".."
    \/ \E k \in 1..(Len(str) - 1) : str[k] = "." /\ str[k + 1] = "."

includesToken(str, t) == \E k \in 1..Len(str) : str[k] = t

\* The separators of path.join on the platform.
separators(os) == IF os = "win32" THEN {"/", "\\"} ELSE {"/"}

\* The string cut at its separators.
RECURSIVE segmentsOf(_, _)
segmentsOf(str, seps) ==
    IF \E k \in 1..Len(str) : str[k] \in seps
    THEN LET k == CHOOSE k \in 1..Len(str) :
                      str[k] \in seps /\ \A j \in 1..(k - 1) : str[j] \notin seps
         IN <<SubSeq(str, 1, k - 1)>> \o segmentsOf(SubSeq(str, k + 1, Len(str)), seps)
    ELSE <<str>>

isDotDot(seg) == seg = <<"..">> \/ seg = <<".", ".">>

\* path.normalize on the segments: "" and "." are dropped, ".." leaves the
\* directory reached so far (the root is its own parent).
RECURSIVE resolve(_, _)
resolve(base, segs) ==
    IF segs = <<>> THEN base
    ELSE IF Head(segs) = <<>> \/ Head(segs) = <<".">> THEN resolve(base, Tail(segs))
    ELSE IF isDotDot(Head(segs))
    THEN resolve(IF base = <<>> THEN <<>> ELSE SubSeq(base, 1, Len(base) - 1),
                 Tail(segs))
    ELSE resolve(Append(base, Head(segs)), Tail(segs))

\* path.join(dir, name)
pathJoin(dir, name, os) == resolve(dir, segmentsOf(name, separators(os)))

cwd == << <<"srv">>, <<"app">> >>

uploadsDir == cwd \o << <<"uploads">> >>

framesDir == uploadsDir \o << <<"frames">> >>

analysesDir == uploadsDir \o << <<"analyses">> >>

\* The directories there are.
Directories ==
    {SubSeq(cwd, 1, k) : k \in 0..Len(cwd)} \cup {uploadsDir, framesDir, analysesDir}

\* The files there are besides the bundles: a frame, a JSON file of the
\* application (package.json) and a foul file.
OtherFiles ==
    { framesDir \o << <<"x">> >>,
      cwd \o << <<"x", ".json">> >>,
      analysesDir \o << <<"foul_", "x", ".json">> >> }

StoredBundle == analysesDir \o << <<"analysis_", "x", ".json">> >>

exists(path) == path \in Directories \cup OtherFiles \cup bundles

\* n times "/..".
RECURSIVE up(_)
up(n) == IF n = 0 THEN <<>> ELSE <<"/", "..">> \o up(n - 1)

TraversalIds ==
    { up(n) \o tail : n \in 1..MaxUp,
                      tail \in { <<"/">>, <<"/", "x">>, <<"/", "frames", "/", "x">> } }

IdInputs == SeqsUpTo(PathTokens, MaxIdLen) \cup TraversalIds

op(by, kind, path) == [by |-> by, op |-> kind, path |-> path]

\* readFile(path) returns the content of a file; a missing path or a
\* directory makes it throw.
readable(path) == exists(path) /\ path \notin Directories

\* The operation readFile(path) amounts to.
readOp(by, path) == op(by, IF readable(path) THEN "read" ELSE "readFailed", path)

InitPaths ==
    /\ PipelineIdle
    /\ clientPc = [c \in Clients |-> "idle"]
    /\ clientId = [c \in Clients |-> "t1"]
    /\ frameStore = EmptyStore
    /\ analysisStore = EmptyStore
    /\ foulStore = EmptyStore
    /\ framesRead = [c \in Clients |-> Nobody]
    /\ loaded = [c \in Clients |-> Nobody]
    /\ clientResponse = [c \in Clients |-> NoClientResponse]
    /\ platform \in {"posix", "win32"}
    /\ ident \in IdInputs
    /\ ppc = "start"
    /\ bundles = {StoredBundle}
    /\ touched = {}
    /\ pathStatus = 0

\* A frame-serving handler with no test of the file name.
ServeFrameUnchecked ==
    /\ ppc = "start"
    /\ LET imagePath == pathJoin(framesDir, ident, platform) IN
       IF ~exists(imagePath)
       THEN /\ pathStatus' = 404
            /\ touched' = touched \cup {op("frames", "exists", imagePath)}
       ELSE /\ pathStatus' = IF imagePath \in Directories THEN 500 ELSE 200
            /\ touched' = touched \cup {op("frames", "exists", imagePath),
                                        readOp("frames", imagePath)}
    /\ ppc' = "done"
    /\ UNCHANGED <<requestVars, analyzeVars, foulVars, storeVars, platform, ident,
                   bundles>>

\* GET /api/frames/[filename]
ServeFrame ==
    /\ ppc = "start"
    /\ IF includesDotDot(ident) \/ includesToken(ident, "/") \/ includesToken(ident, "\\")
       THEN /\ pathStatus' = 400
            /\ UNCHANGED touched
       ELSE LET imagePath == pathJoin(framesDir, ident, platform) IN
            IF ~exists(imagePath)
            THEN /\ pathStatus' = 404
                 /\ touched' = touched \cup {op("frames", "exists", imagePath)}
            ELSE \* readFile of a directory throws, to the catch
                 /\ pathStatus' = IF imagePath \in Directories THEN 500 ELSE 200
                 /\ touched' = touched \cup {op("frames", "exists", imagePath),
                                             readOp("frames", imagePath)}
    /\ ppc' = "done"
    /\ UNCHANGED <<requestVars, analyzeVars, foulVars, storeVars, platform, ident,
                   bundles>>

\* `analysis_${id}.json` and `foul_${id}.json`
analysisName(id) == <<"analysis_">> \o id \o <<".json">>

foulName(id) == <<"foul_">> \o id \o <<".json">>

\* GET /api/analyses/[id]
GetAnalysis ==
    /\ ppc = "start"
    /\ IF ident = <<>>
       THEN /\ pathStatus' = 400
            /\ UNCHANGED touched
       ELSE LET analysisPath == pathJoin(analysesDir, analysisName(ident), platform) IN
            IF ~exists(analysisPath)
            THEN /\ pathStatus' = 404
                 /\ touched' = touched \cup {op("analyses", "exists", analysisPath)}
            ELSE /\ pathStatus' = IF analysisPath \in Directories THEN 500 ELSE 200
                 /\ touched' = touched \cup {op("analyses", "exists", analysisPath),
                                             readOp("analyses", analysisPath)}
    /\ ppc' = "done"
    /\ UNCHANGED <<requestVars, analyzeVars, foulVars, storeVars, platform, ident,
                   bundles>>

\* writeFile(path) can succeed: the directory is there and path is none.
writable(path) ==
    /\ path # <<>>
    /\ SubSeq(path, 1, Len(path) - 1) \in Directories
    /\ path \notin Directories

\* The operation writeFile(path) amounts to.
writeOp(by, path) == op(by, IF writable(path) THEN "write" ELSE "writeFailed", path)

\* The timestamp the analyze handler uses: timestamp || Date.now().
analysisTimestamp == IF ident = <<>> THEN <<"x">> ELSE ident

\* A save step that goes on to the determination call after a failed write.
AnalyzeWritePathCallsAnyway ==
    /\ ppc = "start"
    /\ LET analysisFilePath ==
               pathJoin(analysesDir, analysisName(analysisTimestamp), platform)
       IN /\ touched' = touched \cup {writeOp("analyze", analysisFilePath)}
          /\ IF writable(analysisFilePath)
             THEN bundles' = bundles \cup {analysisFilePath}
             ELSE UNCHANGED bundles
    /\ ppc' = "written"
    /\ pathStatus' = 200
    /\ UNCHANGED <<requestVars, analyzeVars, foulVars, storeVars, platform, ident>>

\* POST /api/analyze: writeFile of the bundle under the request's timestamp;
\* a failed write ends the request with the save warning.
AnalyzeWritePath ==
    /\ ppc = "start"
    /\ LET analysisFilePath ==
               pathJoin(analysesDir, analysisName(analysisTimestamp), platform)
       IN /\ touched' = touched \cup {writeOp("analyze", analysisFilePath)}
          /\ IF writable(analysisFilePath)
             THEN bundles' = bundles \cup {analysisFilePath} /\ ppc' = "written"
             ELSE UNCHANGED bundles /\ ppc' = "done"
    /\ pathStatus' = 200
    /\ UNCHANGED <<requestVars, analyzeVars, foulVars, storeVars, platform, ident>>

\* POST /api/foul with the identifier id: readFile of the bundle, the
\* determination (which can fail), writeFile of the foul file.
FoulPaths(id) ==
    IF id = <<>>
    THEN /\ pathStatus' = 400
         /\ ppc' = "done"
         /\ UNCHANGED <<touched, bundles>>
    ELSE LET analysisPath == pathJoin(analysesDir, analysisName(id), platform)
             foulPath == pathJoin(analysesDir, foulName(id), platform)
         IN \/ /\ analysisPath \notin bundles
               /\ touched' = touched \cup {readOp("foul", analysisPath)}
               /\ pathStatus' = 500
               /\ ppc' = "done"
               /\ UNCHANGED bundles
            \/ /\ analysisPath \in bundles
               /\ touched' = touched \cup {readOp("foul", analysisPath)}
               /\ pathStatus' = 500
               /\ ppc' = "done"
               /\ UNCHANGED bundles
            \/ /\ analysisPath \in bundles
               /\ touched' = touched \cup {readOp("foul", analysisPath),
                                           writeOp("foul", foulPath)}
               /\ IF writable(foulPath)
                  THEN pathStatus' = 200 /\ bundles' = bundles \ {foulPath}
                  ELSE pathStatus' = 500 /\ UNCHANGED bundles
               /\ ppc' = "done"

\* A caller's determination request.
FoulRequest ==
    /\ ppc = "start"
    /\ FoulPaths(ident)
    /\ UNCHANGED <<requestVars, analyzeVars, foulVars, storeVars, platform, ident>>

\* The analyze handler's own call of the determination endpoint.
FoulCallOfAnalyze ==
    /\ ppc = "written"
    /\ FoulPaths(analysisTimestamp)
    /\ UNCHANGED <<requestVars, analyzeVars, foulVars, storeVars, platform, ident>>

NextPaths ==
    \/ ServeFrame
    \/ GetAnalysis
    \/ AnalyzeWritePath
    \/ FoulRequest
    \/ FoulCallOfAnalyze

SpecPaths == InitPaths /\ [][NextPaths]_vars

\* The identifier holds a path-traversal sequence.
HasTraversal(id) ==
    \E k \in 1..Len(id) :
        \/ id[k] \in {"..", "/", "\\"}
        \/ k < Len(id) /\ id[k] = "." /\ id[k + 1] = "."

\* The path is a file directly inside the directory.
DirectlyInside(dir, path) ==
    /\ Len(path) = Len(dir) + 1
    /\ SubSeq(path, 1, Len(dir)) = dir

C22_Served ==
    /\ ppc = "done"
    /\ pathStatus = 200
    /\ \E t \in touched : t.by = "frames" /\ t.op = "read"

\* The path lies somewhere below the directory.
Inside(dir, path) ==
    /\ Len(path) > Len(dir)
    /\ SubSeq(path, 1, Len(dir)) = dir

\* C30: every file the analysis retrieval endpoint and the determination
\* endpoint read or write lies inside uploads/analyses, whatever the
\* identifier.
C30_AnalysisFilesStayInside ==
    \A t \in touched :
        (t.by \in {"analyses", "foul"} /\ t.op \in {"read", "write"})
            => Inside(analysesDir, t.path)

\* An identifier without a separator keeps both endpoints directly inside
\* uploads/analyses.
C30_PlainIdentifierStaysInside ==
    (~includesToken(ident, "/") /\ ~(platform = "win32" /\ includesToken(ident, "\\")))
        => \A t \in touched :
               t.by \in {"analyses", "foul"} => DirectlyInside(analysesDir, t.path)

\* C28: the determination in a client's analyze response was computed
\* from the analyses of that same response, under every interleaving of two
\* requests, the ones with the same identifier included.
C28_DeterminationOfOwnAnalyses ==
    \A c \in Clients :
        (clientPc[c] = "done" /\ clientResponse[c].foulDetermination # Nobody)
            => clientResponse[c].foulDetermination = clientResponse[c].analyses

\* With different identifiers a determination that was returned is the one
\* of the response's own analyses.
C28_DifferentIdentifiers ==
    (\A c, d \in Clients : c # d => clientId[c] # clientId[d])
        => C28_DeterminationOfOwnAnalyses

\* The members of the JSON object the analyze handler answers with, by the
\* place that built it.
responseKeys(r) ==
    IF r.kind = "batch"
    THEN {"success", "analyses", "analysisId", "summary", "sequenceAnalysis",
          "foulDetermination", "message"}
    ELSE IF r.kind = "fallback"
    THEN {"success", "analyses", "analysisId", "summary", "foulDetermination",
          "message"}
    ELSE IF r.kind = "saveWarning"
    THEN {"success", "analyses", "summary", "sequenceAnalysis", "message"}
    ELSE {"success", "message"}

\* The members of the bundle written to analysis_<timestamp>.json.
recordKeys(f) ==
    {"timestamp", "frameCount", "analyses", "createdAt", "type", "summary"}
        \cup (IF f.fallbackMode THEN {"fallbackMode"} ELSE {"sequenceAnalysis"})

\* The analyze request has written its bundle.
BundleWritten ==
    pc \in {"foulCall", "awaitFoul", "done"} /\ analysisFile.present

\* C23: a result of the fallback path carries the degradation flag and a
\* result of the batch path does not, in the persisted record and in the
\* analyze response.
C23_FallbackResultsFlagged ==
    /\ BundleWritten
           => ("fallbackMode" \in recordKeys(analysisFile) <=> fallbackMode)
    /\ (pc = "done" /\ response.status = 200)
           => ("fallbackMode" \in responseKeys(response) <=> fallbackMode)

\* The persisted record carries the flag exactly when the fallback ran.
C23_PersistedRecordFlagged ==
    BundleWritten
        => ("fallbackMode" \in recordKeys(analysisFile) <=> fallbackMode)

(***************************************************************************)
(* The bullet lookahead and the lines that end it (specification            *)
(* SpecLookahead): FRAME 1, an empty FOUL_INDICATORS: line, bullets, blank   *)
(* lines, bullets, and a line that ends the list.                           *)
(***************************************************************************)
MaxBlank == 3

BlankRuns == {[k \in 1..n |-> <<>>] : n \in 0..MaxBlank}

BulletRuns == SeqsUpTo(BulletLines, 1)

\* Lines that end a bullet list.
EndLines ==
    { <<"ACTION", ":", " ", "w1">>,
      <<"BALL_STATUS", ":", " ", "w1">>,
      frameHeader(2, "plain"),
      frameHeader(2, "bold"),
      <<"SEQUENCE_ANALYSIS", ":">>,
      <<"*", "*", "SEQUENCE_ANALYSIS", ":", "*", "*">> }

lookaheadTexts ==
    { << frameHeader(1, "plain"), fi >> \o b1 \o blanks \o b2 \o <<e>> :
          fi \in EmptyIndicatorLines, b1 \in BulletRuns, blanks \in BlankRuns,
          b2 \in BulletRuns, e \in EndLines }

InitLookahead ==
    /\ frames = FramesOf(2, 0)
    /\ text \in lookaheadTexts
    /\ BatchReturned

NextLookahead == ParseResponse

SpecLookahead == InitLookahead /\ [][NextLookahead]_vars

\* The line is one of those that end a bullet list: a field label, a frame
\* header or the sequence-analysis header, plain or with emphasis.
IsEndLine(line) ==
    \/ stopLabelMatch(line)
    \/ frameMatch(line) # NoMatch
    \/ sequenceHeaderMatch(line)

\* The bullets from line p on, up to the line that ends the list or the
\* third consecutive blank line.
RECURSIVE bulletsUntilEnd(_, _, _)
bulletsUntilEnd(txt, p, blanks) ==
    IF p > Len(txt) THEN <<>>
    ELSE LET line == trim(txt[p]) IN
         IF IsEndLine(line) THEN <<>>
         ELSE IF line = <<>>
         THEN IF blanks + 1 > 2 THEN <<>>
              ELSE bulletsUntilEnd(txt, p + 1, blanks + 1)
         ELSE IF line[1] \in {"*", "-"}
         THEN (IF trim(Tail(line)) # <<>> THEN <<trim(Tail(line))>> ELSE <<>>)
                  \o bulletsUntilEnd(txt, p + 1, 0)
         ELSE <<>>

\* C24: the indicators collected after an empty FOUL_INDICATORS: line are
\* the bullets up to the first field label, frame header or sequence-analysis
\* header (plain or with emphasis) or to the third consecutive blank line;
\* the line that ends the list is not among them.
C24_LookaheadStopsAtEndLine ==
    pc = "save" => frameAnalyses[1].foulIndicators = bulletsUntilEnd(text, 3, 0)

\* The line that ends the list starts with no "*" and at most two blank
\* lines stand between the bullets: the lookahead stops there.
C24_PlainEndLineStops ==
    (/\ pc = "save"
     /\ text[Len(text)][1] # "*"
     /\ \A p \in 1..(Len(text) - 2) :
            ~(text[p] = <<>> /\ text[p + 1] = <<>> /\ text[p + 2] = <<>>))
        => frameAnalyses[1].foulIndicators = bulletsUntilEnd(text, 3, 0)

(***************************************************************************)
(* The sequence-analysis section at the start of the response or after      *)
(* other lines (specification SpecSequence).                                 *)
(***************************************************************************)
\* What stands before the section: nothing, prose, a frame header.
SectionPrefixes == { <<>>, << <<"w1">> >>, << frameHeader(1, "plain") >> }

SectionHeaders ==
    { <<"SEQUENCE_ANALYSIS", ":">>,
      <<"*", "*", "SEQUENCE_ANALYSIS", ":", "*", "*">> }

\* No line, or the label with a remainder.
labelLines(label) ==
    { <<>> } \cup { << <<label, ":", " ">> \o r >> : r \in { <<"w1">>, <<"w2", " ", "w1">> } }

sectionTexts ==
    { pre \o <<h>> \o lp \o lk \o lf :
          pre \in SectionPrefixes, h \in SectionHeaders,
          lp \in labelLines("PROGRESSION"), lk \in labelLines("KEY_MOMENTS"),
          lf \in labelLines("FOUL_DETERMINATION") }

InitSequence ==
    /\ frames = FramesOf(1, 0)
    /\ text \in sectionTexts
    /\ BatchReturned

NextSequence == ParseResponse

SpecSequence == InitSequence /\ [][NextSequence]_vars

\* The member of the summary a label fills.
fieldOf(label) ==
    IF label = "PROGRESSION" THEN "progression"
    ELSE IF label = "KEY_MOMENTS" THEN "keyMoments"
    ELSE "foulDetermination"

\* The position of the section's header line in the text, 0 if it has none.
headerLine(txt) ==
    IF \E p \in 1..Len(txt) : sequenceHeaderMatch(trim(txt[p]))
    THEN CHOOSE p \in 1..Len(txt) :
             /\ sequenceHeaderMatch(trim(txt[p]))
             /\ \A q \in 1..(p - 1) : ~sequenceHeaderMatch(trim(txt[q]))
    ELSE 0

\* Every labelled line after the header has its remainder in the summary.
RemaindersExtracted ==
    \A p \in (headerLine(text) + 1)..Len(text) :
        \A label \in {"PROGRESSION", "KEY_MOMENTS", "FOUL_DETERMINATION"} :
            (/\ startsWith(trim(text[p]), <<label, ":">>)
             /\ trim(removePrefix(trim(text[p]), <<label, ":">>)) # <<>>)
                => /\ fieldOf(label) \in DOMAIN sequenceAnalysis
                   /\ sequenceAnalysis[fieldOf(label)]
                          = trim(removePrefix(trim(text[p]), <<label, ":">>))

\* C25: for a response with the SEQUENCE_ANALYSIS header, plain or with
\* emphasis, anywhere in the text, the very start included, the summary
\* holds the remainder of every PROGRESSION:, KEY_MOMENTS: and
\* FOUL_DETERMINATION: line that follows it.
C25_SectionExtracted ==
    (pc = "save" /\ headerLine(text) # 0) => RemaindersExtracted

\* The same for a header that is not at the very start of the text.
C25_SectionAfterOtherText ==
    (pc = "save" /\ headerLine(text) > 1) => RemaindersExtracted

\* The request is past its batch attempt.
PastBatchAttempt ==
    /\ framesField = "array"
    /\ pc \in {"batchReturned", "save", "fallback", "foulCall", "awaitFoul", "done"}

\* The describe calls of a request that issued the batch call once and then,
\* in the fallback, one call for each of the frames 1..i in order.
CallsInOrder == describeCalls = <<0>> \o [k \in 1..i |-> k]

\* C26: the batch describe call is issued exactly once; after its failure
\* the fallback issues one single-frame call for each frame, in the order
\* 1..N, whatever the calls before returned; no call is issued twice.
C26_OneCallEach ==
    PastBatchAttempt => CallsInOrder

\* The same for a request whose frames can all be read.
C26_OneCallEachReadable ==
    (PastBatchAttempt /\ \A k \in 1..Len(frames) : frames[k].path \in diskFrames)
        => CallsInOrder

\* The batch call threw, the call for frame 1 threw, and frame 2 got its call.
C26_FailedFrameThenNext ==
    /\ pc = "done"
    /\ Len(frames) = 2
    /\ describeCalls = <<0, 1, 2>>
    /\ frameResults[1].outcome = "threw"
    /\ frameResults[2].outcome = "returned"

\* C27: the determination step of an analyze request runs only after the
\* request's bundle has been written, and reads the file of that same
\* identifier; after a failed write of the bundle it does not run.
C27_DeterminationAfterWrite ==
    \A a \in touched :
        a.by = "analyze" =>
            \A f \in touched :
                f.by = "foul" =>
                    /\ a.op = "write"
                    /\ f.op \in {"read", "readFailed"}
                           => (f.op = "read" /\ f.path = a.path)

\* An analyze request wrote its bundle and its determination step read it
\* and wrote the foul file.
C27_Witness ==
    /\ ppc = "done"
    /\ pathStatus = 200
    /\ ident = <<"x", "x">>
    /\ \E a, f, g \in touched :
           /\ a.by = "analyze" /\ a.op = "write"
           /\ f.by = "foul" /\ f.op = "read" /\ f.path = a.path
           /\ g.by = "foul" /\ g.op = "write"

\* The write of the bundle failed and the request ended without a
\* determination call.
C27_FailedWriteEndsRequest ==
    /\ ppc = "done"
    /\ \E a \in touched : a.by = "analyze" /\ a.op = "writeFailed"
    /\ \A f \in touched : f.by # "foul"

\* In the whole pipeline: the foul handler is at work only with a bundle
\* written, and the answer of a failed write comes without it having run.
C27_PipelineOrder ==
    /\ (pc \in {"awaitFoul", "done"} /\ fpc # "idle") => analysisFile.present
    /\ (pc = "done" /\ response.kind = "saveWarning") => fpc = "idle"

\* C29: the fallback, having gone through the N frames, has N records,
\* numbered 1..N in order, record k with the timestamp of input frame k,
\* whichever calls returned and whichever threw.
C29_FallbackRecordsMatchFrames ==
    (fallbackMode /\ i = Len(frames)) =>
        /\ Len(frameAnalyses) = Len(frames)
        /\ \A k \in 1..Len(frames) :
               /\ frameAnalyses[k].frameNumber = k
               /\ frameAnalyses[k].timestamp = frames[k].timestamp

\* Two frames with the timestamps 11 and 12: the call for the first returned,
\* the call for the second threw, and the request was answered.
C29_Witness ==
    /\ fallbackMode
    /\ pc = "done"
    /\ response.status = 200
    /\ frames = FramesOf(2, 10)
    /\ Len(frameResults) = 2
    /\ frameResults[1].outcome = "returned"
    /\ frameResults[2].outcome = "threw"
    /\ Len(response.analyses) = 2

\* Both frames failed: the call for the first threw, the second could not
\* be read.
C29_BothFail ==
    /\ fallbackMode
    /\ i = 2
    /\ frameResults[1].outcome = "threw"
    /\ frameResults[2].outcome = "unreadable"

====
